---- MODULE Spec2Model ----
(***************************************************************************)
(* Model of the job executor, the single-slot corpus cache and the         *)
(* diff-based undo/redo of annatomic (src/app/job_executor.rs,             *)
(* src/app/project.rs, src/app/project/cache.rs).                          *)
(*                                                                         *)
(* The control thread calls the Project methods and JobExecutor::show      *)
(* (the drain).  Every job added with JobExecutor::add is a worker on the  *)
(* rayon pool; each worker advances through its own program counter, one   *)
(* lock-protected section per step.                                        *)
(*                                                                         *)
(* egui::util::undoer::Undoer is a dependency of the repository; the       *)
(* Undoer* operators follow its implementation and are mapped to the call  *)
(* sites in project.rs.  A graph is abstracted to the set of its nodes, an *)
(* UpdateEvent to AddNode/DeleteNode.                                      *)
(***************************************************************************)
EXTENDS Integers, Sequences, FiniteSets, TLC

VARIABLES
    selected_corpus,   \* Project.selected_corpus : Option<Corpus>
    updates_pending,   \* Project.updates_pending
    undoer,            \* Project.undoer : Undoer<Corpus>
    cache,             \* CorpusCache.inner : Option<InnerCorpusCache>
    heap,              \* the live Arc<RwLock<AnnotationGraph>> instances
    disk,              \* persisted graph per storage location
    running,           \* JobExecutor.running (its key set)
    finished,          \* JobExecutor.finished : title -> pending callback
    failed,            \* JobExecutor.failed   : title -> error
    jobs,              \* closures spawned on the thread pool, with their position
    app_graph,         \* AnnatomicApp.graph : Option<handle>
    exited,            \* on_exit has run
    mode,              \* "free", "tracked" (hist is recorded, workers may fail),
                       \* "history" (one corpus, changesets and undo() calls only)
                       \* or "sequential" (the caller waits for the jobs before
                       \* the next call, workers may fail)
    ops,               \* number of Project calls made so far
    hist,              \* per JobExecutor::add call: what happened to it
    scen,              \* bookkeeping of the call sequence since the selection
    corpus_locations,  \* Project.corpus_locations: the registry, name -> location
    shutdown_request,  \* AnnatomicApp.shutdown_request
    editor_pending,    \* the current editor has edits it has not flushed
    guards,            \* the RwLock guards held on graph instances: job, handle,
                       \* read or write, events applied so far
    got,               \* the last CorpusCache::get that returned: location, handle
    lastOp,            \* the last Project call: has_undo/has_redo before it, whether it returned Ok
    completed,         \* titles whose callback waits in finished, in the order
                       \* the workers stored them (recorded in mode "order")
    current_editor,    \* AnnatomicApp.current_editor: the location of the corpus
                       \* whose graph the installed editor was built from
    main_view,         \* AnnatomicApp.main_view: "Start" or "EditDocument"
    held,              \* the guards held on JobExecutor.running, .finished,
                       \* .failed and on CorpusCache.inner ("slot"): lock, owner
                       \* (a job id, 0 for the control thread), read or write
    ctl                \* where the control thread is inside JobExecutor::show
                       \* or persist_changes_on_exit (followed in mode "wait")

vars == <<selected_corpus, updates_pending, undoer, cache, heap, disk, running,
          finished, failed, jobs, app_graph, exited, mode, ops, hist,
          scen, corpus_locations, shutdown_request, editor_pending, guards,
          got, lastOp, completed,
          current_editor,
          main_view, held, ctl>>

----------------------------------------------------------------------------
(* Bounds *)

\* Project calls per behaviour when calls and workers interleave freely
MaxOps == 2
\* Project calls per behaviour when hist is recorded
MaxTrackedOps == 2
\* Project calls per behaviour when every call waits for the jobs
SeqMaxOps == 6
\* workers in flight from which on the caller holds back further calls
MaxInFlight == 2
\* the same when hist is recorded
MaxTrackedInFlight == 1
\* Project calls per behaviour of SpecCache
CacheMaxOps == 2
\* Project calls per behaviour of SpecLocks
LockMaxOps == 1
\* Project calls per behaviour of SpecDelete
DelMaxOps == 2
\* Project calls per behaviour of SpecFail
FailMaxOps == 2
\* calls of the control thread per behaviour of SpecShutdown
ShutMaxOps == 2
\* Project calls per behaviour of SpecHistory: select_corpus, MaxUndos
\* changesets, MaxUndos undo() calls
HistMaxOps == 21
\* Project calls per behaviour of SpecRestart: select_corpus, an exit, a
\* restart and more than MaxUndos changesets
RestartMaxOps == 13
\* Project calls per behaviour of SpecRegistry
RegMaxOps == 2
\* calls of select_corpus and change_view per behaviour of SpecViews
ViewMaxOps == 2
\* Project calls per behaviour of SpecWait
WaitMaxOps == 1
\* Project calls per behaviour of SpecSelect
SelMaxOps == 2
\* Project calls per behaviour of SpecExport
ExportMaxOps == 3
\* calls of AnnatomicApp::select_corpus per behaviour of SpecUi
UiMaxOps == 2

(* Program constants *)
MaxUndos == 10
\* max_undos of egui's undoer::Settings::default()
DefaultMaxUndos == 100

----------------------------------------------------------------------------
(* Option<T> *)
None == <<>>
Some(x) == <<x>>
IsSome(o) == o # <<>>
Unwrap(o) == o[1]

Last(s) == s[Len(s)]
Front(s) == SubSeq(s, 1, Len(s) - 1)

----------------------------------------------------------------------------
(* Data *)

Corpora == {"a", "b"}
\* Project.corpus_locations once the corpora are registered
RegisteredLocations == [c \in Corpora |-> c]

Nodes == {"n1"}
Events == [op : {"AddNode", "DeleteNode"}, node : Nodes]

AddN(n) == [op |-> "AddNode", node |-> n]
DelN(n) == [op |-> "DeleteNode", node |-> n]

\* the GraphUpdate values handed to add_changeset
Changesets ==
    { <<AddN("n1")>>, <<DelN("n1")>>, <<AddN("n1"), DelN("n1")>> }

SeqChangesets == { <<AddN("n1")>>, <<DelN("n1")>> }

\* what is persisted at each location when the program starts
InitialDisk == [l \in Corpora |-> IF l = "a" THEN {} ELSE {"n1"}]

\* Corpus::new
NewCorpus(name, location) ==
    [name |-> name, location |-> location, diff_to_last_save |-> <<>>]

\* graph.apply_update_keep_statistics for one event
ApplyEvent(g, e) ==
    IF e.op = "AddNode" THEN g \cup {e.node} ELSE g \ {e.node}

RECURSIVE ApplyUpdate(_, _)
\* graph.apply_update_keep_statistics: the events in order
ApplyUpdate(g, evs) ==
    IF evs = <<>> THEN g
    ELSE ApplyUpdate(ApplyEvent(g, Head(evs)), Tail(evs))

----------------------------------------------------------------------------
(* egui::util::undoer::Undoer<Corpus> *)

\* default_undoer: Undoer::with_settings(Settings { max_undos: 10, .. })
default_undoer == [undos |-> <<>>, redos |-> <<>>, max_undos |-> MaxUndos]

\* Undoer::default(), the value serde gives the skipped field `undoer` of a
\* deserialized Project: the settings are egui's defaults
deserialized_undoer ==
    [undos |-> <<>>, redos |-> <<>>, max_undos |-> DefaultMaxUndos]

UndoerBack(u) == IF u.undos = <<>> THEN None ELSE Some(Last(u.undos))

\* Undoer::has_undo
UndoerHasUndo(u, current) ==
    CASE Len(u.undos) = 0 -> FALSE
      [] Len(u.undos) = 1 -> UndoerBack(u) # Some(current)
      [] OTHER -> TRUE

\* Undoer::has_redo
UndoerHasRedo(u, current) ==
    u.redos # <<>> /\ UndoerBack(u) = Some(current)

\* Undoer::undo: the undoer afterwards and the returned Option<&State>
UndoerUndo(u, current) ==
    IF UndoerHasUndo(u, current)
    THEN LET u2 == IF UndoerBack(u) = Some(current)
                   THEN [u EXCEPT !.undos = Front(u.undos),
                                  !.redos = Append(u.redos, Last(u.undos))]
                   ELSE [u EXCEPT !.redos = Append(u.redos, current)]
         IN [undoer |-> u2, result |-> UndoerBack(u2)]
    ELSE [undoer |-> u, result |-> None]

\* Undoer::redo
UndoerRedo(u, current) ==
    IF u.undos # <<>> /\ UndoerBack(u) # Some(current)
    THEN [undoer |-> [u EXCEPT !.redos = <<>>], result |-> None]
    ELSE IF u.redos # <<>>
         THEN LET u2 == [u EXCEPT !.undos = Append(u.undos, Last(u.redos)),
                                  !.redos = Front(u.redos)]
              IN [undoer |-> u2, result |-> UndoerBack(u2)]
         ELSE [undoer |-> u, result |-> None]

RECURSIVE Truncate(_, _)
Truncate(s, n) == IF Len(s) > n THEN Truncate(Tail(s), n) ELSE s

\* Undoer::add_undo
UndoerAddUndo(u, current) ==
    LET pushed == IF UndoerBack(u) # Some(current)
                  THEN Append(u.undos, current) ELSE u.undos
    IN [u EXCEPT !.undos = Truncate(pushed, u.max_undos)]

----------------------------------------------------------------------------
(* Graph instances *)

\* the smallest handle not in use
FreshHandle(h) ==
    CHOOSE i \in 1..(Cardinality(DOMAIN h) + 1) :
        i \notin DOMAIN h /\ \A j \in 1..(i - 1) : j \in DOMAIN h

\* AnnotationGraph::new + import: a new instance holding the persisted content
Alloc(h, content) ==
    LET i == FreshHandle(h)
    IN [j \in DOMAIN h \cup {i} |-> IF j = i THEN content ELSE h[j]]

PayloadsOf(q) == { Unwrap(q[t]) : t \in { x \in DOMAIN q : IsSome(q[x]) } }

\* a mutation: the reload takes the cached instance when the slot already
\* holds this location
load_from_disk_cached(c, h, d, location) ==
    IF IsSome(c) /\ Unwrap(c).location = location
    THEN [cache |-> c, heap |-> h, handle |-> Unwrap(c).graph]
    ELSE [cache |-> Some([location |-> location, graph |-> FreshHandle(h)]),
          heap |-> Alloc(h, d[location]), handle |-> FreshHandle(h)]

\* CorpusCache::load_from_disk: whatever the slot c holds, a new instance with
\* the persisted content replaces it
load_from_disk(c, h, d, location) ==
    [cache |-> Some([location |-> location, graph |-> FreshHandle(h)]),
     heap |-> Alloc(h, d[location]), handle |-> FreshHandle(h)]

\* the handles some Arc still points to
Referenced(c, js, fin, ag) ==
    (IF IsSome(c) THEN {Unwrap(c).graph} ELSE {})
    \cup { j.handle : j \in js }
    \cup { p.handle : p \in PayloadsOf(fin) }
    \cup (IF IsSome(ag) THEN {Unwrap(ag)} ELSE {})
    \cup {ctl.handle}

\* dropping the last Arc frees the instance
Collect(h, c, js, fin, ag) ==
    [i \in DOMAIN h \cap Referenced(c, js, fin, ag) |-> h[i]]

\* CorpusCache::get: `existing.location == location`
CacheHit(c, location) == IsSome(c) /\ Unwrap(c).location = location

\* got, once a get for `location` has returned handle h
GotNote(location, h) ==
    IF mode = "cache"
    THEN Some([location |-> location, handle |-> h])
    ELSE None

\* got, once the instances outside h2 are dropped: a dropped instance is never
\* returned again (handle 0), whatever instance takes its place
GotAlive(g, h2) ==
    IF IsSome(g) /\ Unwrap(g).handle \notin DOMAIN h2
    THEN Some([Unwrap(g) EXCEPT !.handle = 0])
    ELSE g

\* got, once get has emptied the slot on its way to load `location`
GotEvict(g, location, h2) ==
    IF IsSome(g) /\ Unwrap(g).location # location THEN None ELSE GotAlive(g, h2)

----------------------------------------------------------------------------
(* JobExecutor *)

Titles == {"Applying editor action", "Creating corpus tree editor",
           "Creating document editor",
           "Deleting corpus a", "Deleting corpus b", "Exporting out",
           "Importing a", "Redoing changes", "Undoing changes", "Updating corpus",
           "Updating corpus selection"}

\* BTreeMap<String, _>::pop_first yields the keys in ascending order
TitleOrder == <<"Applying editor action", "Creating corpus tree editor",
                "Creating document editor",
                "Deleting corpus a",
                "Deleting corpus b", "Exporting out", "Importing a",
                "Redoing changes",
                "Undoing changes",
                "Updating corpus", "Updating corpus selection">>

TitleOf(kind) ==
    CASE kind = "redo" -> "Redoing changes"
      [] kind = "undo" -> "Undoing changes"
      [] kind = "changeset" -> "Updating corpus"
      [] kind = "structure" -> "Updating corpus selection"
      [] kind = "editor" -> "Applying editor action"
      [] kind = "tree" -> "Creating corpus tree editor"
      [] kind = "doc" -> "Creating document editor"
      [] kind = "export" -> "Exporting out"
      [] kind = "import" -> "Importing a"

\* format!("Deleting corpus \"{corpus_name}\" from {}", location)
DeleteTitle(name) ==
    CASE name = "a" -> "Deleting corpus a"
      [] name = "b" -> "Deleting corpus b"

EmptyQueue == [t \in Titles |-> None]

FreshJobId(js, fin, fl) ==
    LET used == { j.id : j \in js } \cup { p.id : p \in PayloadsOf(fin) }
                \cup { p.id : p \in PayloadsOf(fl) }
    IN CHOOSE i \in 1..(Cardinality(used) + 1) :
          i \notin used /\ \A k \in 1..(i - 1) : k \in used

NewHist == [worker |-> "none", runs |-> 0, updated |-> 0, reported |-> 0,
            lost |-> FALSE]

\* The part of the application a state_updater may touch.
AppOf(sel, pend, und, run, js, ag, hs) ==
    [selected_corpus |-> sel, updates_pending |-> pend, undoer |-> und,
     running |-> run, jobs |-> js, app_graph |-> ag, hist |-> hs]

\* JobExecutor::add: register the title, spawn the closure
JobAdd(app, kind, corpus, events, fin, fl) ==
    LET serial == IF mode = "tracked" THEN Len(app.hist) + 1 ELSE 0
        job == [id |-> FreshJobId(app.jobs, fin, fl), serial |-> serial,
                title |-> TitleOf(kind), kind |-> kind, pc |-> "start",
                corpus |-> corpus, events |-> events, handle |-> 0,
                ok |-> TRUE]
    IN [app EXCEPT !.running = @ \cup {TitleOf(kind)},
                   !.jobs = @ \cup {job},
                   !.hist = IF mode = "tracked" THEN Append(@, NewHist) ELSE @]

\* JobExecutor::add for the job of delete_corpus, whose title names the corpus
JobAddDelete(app, name, location, fin, fl) ==
    LET serial == IF mode = "tracked" THEN Len(app.hist) + 1 ELSE 0
        job == [id |-> FreshJobId(app.jobs, fin, fl), serial |-> serial,
                title |-> DeleteTitle(name), kind |-> "delete", pc |-> "start",
                corpus |-> Some(NewCorpus(name, location)), events |-> <<>>,
                handle |-> 0, ok |-> TRUE]
    IN [app EXCEPT !.running = @ \cup {DeleteTitle(name)},
                   !.jobs = @ \cup {job},
                   !.hist = IF mode = "tracked" THEN Append(@, NewHist) ELSE @]

\* Project::update_corpus_structure_job
update_corpus_structure_job(app, fin, fl) ==
    JobAdd(app, "structure", app.selected_corpus, <<>>, fin, fl)


\* HistAt(hs, n, f, v): hist with field f of entry n set to v (n = 0: not recorded)
HistSet(hs, n, f, v) ==
    IF n = 0 THEN hs ELSE [hs EXCEPT ![n][f] = v]

HistInc(hs, n, f) ==
    IF n = 0 THEN hs ELSE [hs EXCEPT ![n][f] = @ + 1]

\* a mutation: the events are logged but no snapshot is pushed
ChangesetUpdaterNoSnapshot(app, p, fin, fl) ==
    LET app1 ==
          IF IsSome(app.selected_corpus)
          THEN LET c == [Unwrap(app.selected_corpus) EXCEPT
                            !.diff_to_last_save = @ \o p.events]
               IN [app EXCEPT !.selected_corpus = Some(c)]
          ELSE app
        app2 == [app1 EXCEPT !.updates_pending = FALSE]
    IN update_corpus_structure_job(app2, fin, fl)

\* the closure `|added_events, app| {...}` of Project::add_changeset
ChangesetUpdater(app, p, fin, fl) ==
    LET app1 ==
          IF IsSome(app.selected_corpus)
          THEN LET c == [Unwrap(app.selected_corpus) EXCEPT
                            !.diff_to_last_save = @ \o p.events]
               IN [app EXCEPT !.selected_corpus = Some(c),
                              !.undoer = UndoerAddUndo(@, c)]
          ELSE app
        app2 == [app1 EXCEPT !.updates_pending = FALSE]
    IN update_corpus_structure_job(app2, fin, fl)

\* the closure `|_, app| {...}` of Project::undo and Project::redo
ReloadUpdater(app, p, fin, fl) ==
    update_corpus_structure_job(app, fin, fl)

\* the closure `move |(graph, corpus_tree), app| {...}` of update_corpus_structure_job
StructureUpdater(app, p) ==
    [app EXCEPT !.app_graph = IF p.handle # 0 THEN Some(p.handle) ELSE None]

\* the closure `|(graph_updates, state_updates), app| {...}` of the editors'
\* apply_pending_updates_for_editor: Project::add_changeset(graph_updates)
EditorUpdater(app, p, fin, fl) ==
    IF IsSome(app.selected_corpus)
    THEN JobAdd([app EXCEPT !.updates_pending = TRUE], "changeset",
                app.selected_corpus, p.events, fin, fl)
    ELSE app

\* BTreeMap::insert on corpus_locations: an entry of the same name is replaced
RegistryInsert(locations, name, location) ==
    [n \in DOMAIN locations \cup {name} |->
        IF n = name THEN location ELSE locations[n]]

\* the closure `|(name, location), app| {...}` of import_corpus, as far as the
\* application record goes: select_corpus(Some(name)) on the registry that
\* holds the imported corpus
ImportUpdater(app, p, fin, fl) ==
    LET c == Unwrap(p.corpus)
    IN IF IsSome(app.selected_corpus)
          /\ Unwrap(app.selected_corpus).name = c.name
       THEN app
       ELSE update_corpus_structure_job(
                [app EXCEPT !.undoer = UndoerAddUndo(default_undoer, c),
                            !.selected_corpus = Some(c)],
                fin, fl)

\* corpus_locations once the drain has run the callback of a finished import
RegistryAfterDrain(locations, fin) ==
    LET t == "Importing a"
    IN IF IsSome(fin[t])
       THEN RegistryInsert(locations, Unwrap(Unwrap(fin[t]).corpus).name,
                           Unwrap(Unwrap(fin[t]).corpus).location)
       ELSE locations

\* `j.1(app)` in JobExecutor::show: the boxed state_updater of one finished job
StateUpdater(app, p, fin, fl) ==
    LET app1 == [app EXCEPT !.hist = HistInc(@, p.serial, "updated")]
    IN CASE p.kind = "changeset" -> ChangesetUpdater(app1, p, fin, fl)
         [] p.kind \in {"undo", "redo"} -> ReloadUpdater(app1, p, fin, fl)
         [] p.kind = "structure" -> StructureUpdater(app1, p)
         [] p.kind = "editor" -> EditorUpdater(app1, p, fin, fl)
         [] p.kind = "delete" -> app1
         [] p.kind = "tree" -> app1
         [] p.kind = "doc" -> app1
         [] p.kind = "export" -> app1
         [] p.kind = "import" -> ImportUpdater(app1, p, fin, fl)

\* a mutation: the entries stay in the map after their callbacks ran
AfterPopLoopKeep(q) == q

\* `while let Some(..) = q.pop_first()`: the map once the loop has ended
AfterPopLoop(q) == [t \in DOMAIN q |-> None]

RECURSIVE ReportFailed(_, _, _)
\* `while let Some((_title, e)) = failed_jobs.pop_first()`: app.notifier.report_error(e)
ReportFailed(hs, fl, i) ==
    IF i > Len(TitleOrder) THEN hs
    ELSE LET t == TitleOrder[i]
         IN IF IsSome(fl[t])
            THEN ReportFailed(HistInc(hs, Unwrap(fl[t]).serial, "reported"), fl, i + 1)
            ELSE ReportFailed(hs, fl, i + 1)

RECURSIVE RunFinished(_, _, _)
\* `while let Some(j) = finished_jobs.pop_first()`: the callbacks in key order.
\* fin is what is still in the map when the callback at position i runs.
RunFinished(app, fin, i) ==
    IF i > Len(TitleOrder) THEN app
    ELSE LET t == TitleOrder[i]
             rest == [fin EXCEPT ![t] = None]
         IN IF IsSome(fin[t])
            THEN RunFinished(StateUpdater(app, Unwrap(fin[t]), rest, EmptyQueue),
                             rest, i + 1)
            ELSE RunFinished(app, fin, i + 1)

----------------------------------------------------------------------------
(* Observers *)

\* a mutation: any stored snapshot counts as an undo point
has_undo_any ==
    IsSome(selected_corpus) /\ undoer.undos # <<>>

\* Project::has_undo
has_undo ==
    IsSome(selected_corpus) /\ UndoerHasUndo(undoer, Unwrap(selected_corpus))

\* Project::has_redo
has_redo ==
    IsSome(selected_corpus) /\ UndoerHasRedo(undoer, Unwrap(selected_corpus))

\* JobExecutor::has_running_jobs
has_running_jobs == running # {}

\* CorpusCache::get seen as a query: the content of the graph it would return
GraphAt(c, h, d, location) ==
    IF IsSome(c) /\ Unwrap(c).location = location
    THEN h[Unwrap(c).graph]
    ELSE d[location]

\* Project::get_selected_graph, as content
SelectedGraph == GraphAt(cache, heap, disk, Unwrap(selected_corpus).location)

\* nothing is running and nothing waits to be drained
Quiescent ==
    jobs = {} /\ running = {} /\ finished = EmptyQueue /\ failed = EmptyQueue

OpsBound ==
    CASE mode = "sequential" -> SeqMaxOps
      [] mode = "tracked" -> MaxTrackedOps
      [] mode = "history" -> HistMaxOps
      [] mode = "restart" -> RestartMaxOps
      [] mode = "ui" -> UiMaxOps
      [] mode = "export" -> ExportMaxOps
      [] mode = "select" -> SelMaxOps
      [] mode = "views" -> ViewMaxOps
      [] mode = "registry" -> RegMaxOps
      [] mode = "cache" -> CacheMaxOps
      [] mode = "locks" -> LockMaxOps
      [] mode = "wait" -> WaitMaxOps
      [] mode = "shutdown" -> ShutMaxOps
      [] mode = "failure" -> FailMaxOps
      [] mode = "delete" -> DelMaxOps
      [] OTHER -> MaxOps

InFlightBound == IF mode = "tracked" THEN MaxTrackedInFlight ELSE MaxInFlight

\* the control thread may make a Project call
CanCall ==
    /\ ~exited
    /\ ctl.pc = "idle"
    /\ ops < OpsBound
    /\ Cardinality(jobs) < InFlightBound
    /\ mode \in {"sequential", "history", "failure", "restart", "registry"}
          => Quiescent

\* Bookkeeping of the calls made on the current selection:
\*   first    it is the first selection of the run
\*   phase    the calls so far are add_changeset only ("cs"), then undo only
\*            ("undo"), then redo only ("redo"); anything else is "off"
\*   edits    the changesets handed to add_changeset, in call order
\*   n_undo, n_redo   undo calls, then redo calls, after the edits
\*   clean    every call (the selection included) was made with nothing in flight
\*   nofail   no worker has failed
\*   base     content of the graph when the corpus was selected
\*   applied  the events the add_changeset workers applied, in that order
\*   saved    diff log and graph content right before the last undo call
\*   rt       "undone" after that undo, "redone" if redo was the very next call
NoScen == [first |-> FALSE, active |-> FALSE, phase |-> "off", edits |-> <<>>,
           n_undo |-> 0, n_redo |-> 0, clean |-> FALSE, nofail |-> TRUE,
           base |-> {}, applied |-> <<>>, saved |-> None, rt |-> "none"]

\* bookkeeping of add_changeset(update)
CalledChangeset(update) ==
    IF ~scen.active THEN scen
    ELSE [scen EXCEPT !.phase = IF @ = "cs" THEN "cs" ELSE "off",
                      !.edits = IF scen.phase = "cs" THEN Append(@, update) ELSE <<>>,
                      !.clean = @ /\ Quiescent,
                      !.saved = None, !.rt = "none"]

\* bookkeeping of undo()
CalledUndo(available, diff, graph) ==
    IF ~scen.active THEN scen
    ELSE [scen EXCEPT !.phase = IF @ \in {"cs", "undo"} THEN "undo" ELSE "off",
                      !.n_undo = IF scen.phase \in {"cs", "undo"} THEN @ + 1 ELSE 0,
                      !.edits = IF scen.phase \in {"cs", "undo"} THEN @ ELSE <<>>,
                      !.applied = <<>>,
                      !.clean = @ /\ Quiescent,
                      !.saved = IF available /\ Quiescent
                                THEN Some([diff |-> diff, graph |-> graph])
                                ELSE None,
                      !.rt = IF available /\ Quiescent THEN "undone" ELSE "none"]

\* bookkeeping of redo()
CalledRedo ==
    IF ~scen.active THEN scen
    ELSE [scen EXCEPT !.phase = IF @ \in {"undo", "redo"} THEN "redo" ELSE "off",
                      !.n_redo = IF scen.phase \in {"undo", "redo"} THEN @ + 1 ELSE 0,
                      !.edits = IF scen.phase \in {"undo", "redo"} THEN @ ELSE <<>>,
                      !.applied = <<>>,
                      !.clean = @ /\ Quiescent,
                      !.saved = IF scen.rt = "undone" THEN @ ELSE None,
                      !.rt = IF @ = "undone" THEN "redone" ELSE "none"]

\* bookkeeping of any other call
CalledOther ==
    IF ~scen.active THEN scen
    ELSE [scen EXCEPT !.phase = "off", !.edits = <<>>, !.applied = <<>>,
                      !.n_undo = 0, !.n_redo = 0,
                      !.clean = @ /\ Quiescent, !.saved = None, !.rt = "none"]

\* the control thread is in no call that takes a lock
Idle == [pc |-> "idle", handle |-> 0]

\* the runs in which the workers take the locks of the graph step by step
LockModes == {"locks", "wait"}

\* egui::mutex::RwLock::write on one of the named locks is granted when no
\* guard is held on it
LockFree(hs, lock) == \A g \in hs : g.lock # lock

\* RwLock::read is granted when no write guard is held
LockReadable(hs, lock) == \A g \in hs : g.lock = lock => g.kind = "r"

----------------------------------------------------------------------------
(* Initial states *)

InitCommon ==
    /\ selected_corpus = None
    /\ updates_pending = FALSE
    /\ undoer = default_undoer
    /\ cache = None
    /\ heap = <<>>
    /\ disk = InitialDisk
    /\ running = {}
    /\ finished = EmptyQueue
    /\ failed = EmptyQueue
    /\ jobs = {}
    /\ app_graph = None
    /\ exited = FALSE
    /\ ops = 0
    /\ hist = <<>>
    /\ got = None
    /\ guards = {}
    /\ main_view = "Start"
    /\ held = {}
    /\ ctl = Idle
    /\ current_editor = None
    /\ completed = <<>>
    /\ corpus_locations = RegisteredLocations
    /\ shutdown_request = "None"
    /\ editor_pending = FALSE
    /\ scen = [NoScen EXCEPT !.first = TRUE]
    /\ lastOp = [op |-> "none", had_undo |-> FALSE, had_redo |-> FALSE, ok |-> TRUE,
                 before |-> None]

\* Project::new, calls and workers interleave freely
Init == InitCommon /\ mode = "free"

\* The state after select_corpus("a") and add_changeset(<<AddNode n1>>), with
\* all their jobs drained.
Edited ==
    LET c0 == NewCorpus("a", RegisteredLocations["a"])
        c1 == [c0 EXCEPT !.diff_to_last_save = <<AddN("n1")>>]
    IN /\ selected_corpus = Some(c1)
       /\ updates_pending = FALSE
       /\ undoer = [default_undoer EXCEPT !.undos = <<c0, c1>>]
       /\ cache = Some([location |-> c1.location, graph |-> 1])
       /\ heap = <<{"n1"}>>
       /\ disk = InitialDisk
       /\ running = {}
       /\ finished = EmptyQueue
       /\ failed = EmptyQueue
       /\ jobs = {}
       /\ app_graph = Some(1)
       /\ exited = FALSE
       /\ hist = <<>>
       /\ scen = [NoScen EXCEPT !.first = TRUE, !.active = TRUE, !.phase = "cs",
                                !.edits = << <<AddN("n1")>> >>, !.clean = TRUE,
                                !.base = InitialDisk["a"],
                                !.applied = <<AddN("n1")>>]

\* calls and workers interleave freely, starting with an edited corpus
InitEdited ==
    /\ Edited
    /\ mode = "free"
    /\ got = None
    /\ guards = {}
    /\ main_view = "Start"
    /\ held = {}
    /\ ctl = Idle
    /\ current_editor = None
    /\ completed = <<>>
    /\ corpus_locations = RegisteredLocations
    /\ shutdown_request = "None"
    /\ editor_pending = FALSE
    /\ ops = 0
    /\ lastOp = [op |-> "none", had_undo |-> FALSE, had_redo |-> FALSE, ok |-> TRUE,
                 before |-> None]

\* The state after select_corpus("a"), add_changeset(<<AddNode n1>>) and the
\* show that ran the callback of the changeset: the structure refresh the
\* callback scheduled is in flight. The workers take the RwLock of the graph
\* step by step.
InitLocks ==
    /\ mode = "locks"
    /\ LET c0 == NewCorpus("a", RegisteredLocations["a"])
           c1 == [c0 EXCEPT !.diff_to_last_save = <<AddN("n1")>>]
           app == update_corpus_structure_job(
                      AppOf(Some(c1), FALSE, [default_undoer EXCEPT !.undos = <<c0, c1>>],
                            {}, {}, Some(1), <<>>),
                      EmptyQueue, EmptyQueue)
       IN /\ selected_corpus = app.selected_corpus
          /\ updates_pending = app.updates_pending
          /\ undoer = app.undoer
          /\ running = app.running
          /\ jobs = app.jobs
          /\ app_graph = app.app_graph
          /\ hist = app.hist
          /\ cache = Some([location |-> c1.location, graph |-> 1])
          /\ heap = <<{"n1"}>>
          /\ scen = [NoScen EXCEPT !.first = TRUE, !.active = TRUE, !.phase = "cs",
                                   !.edits = << <<AddN("n1")>> >>, !.clean = TRUE,
                                   !.base = InitialDisk["a"],
                                   !.applied = <<AddN("n1")>>]
    /\ disk = InitialDisk
    /\ finished = EmptyQueue
    /\ failed = EmptyQueue
    /\ exited = FALSE
    /\ got = None
    /\ guards = {}
    /\ main_view = "Start"
    /\ held = {}
    /\ ctl = Idle
    /\ current_editor = None
    /\ completed = <<>>
    /\ corpus_locations = RegisteredLocations
    /\ shutdown_request = "None"
    /\ editor_pending = FALSE
    /\ ops = 0
    /\ lastOp = [op |-> "none", had_undo |-> FALSE, had_redo |-> FALSE, ok |-> TRUE,
                 before |-> None]

\* as InitEdited, and the shutdown sequence of AnnatomicApp::show is followed
InitShutdown ==
    /\ Edited
    /\ mode = "shutdown"
    /\ got = None
    /\ guards = {}
    /\ main_view = "Start"
    /\ held = {}
    /\ ctl = Idle
    /\ current_editor = None
    /\ completed = <<>>
    /\ corpus_locations = RegisteredLocations
    /\ shutdown_request = "None"
    /\ editor_pending = FALSE
    /\ ops = 0
    /\ lastOp = [op |-> "none", had_undo |-> FALSE, had_redo |-> FALSE, ok |-> TRUE,
                 before |-> None]

\* as InitEdited; calls are made with nothing in flight, workers may fail, and
\* every call records the selected corpus and the undo history it finds
InitFail ==
    /\ Edited
    /\ mode = "failure"
    /\ got = None
    /\ guards = {}
    /\ main_view = "Start"
    /\ held = {}
    /\ ctl = Idle
    /\ current_editor = None
    /\ completed = <<>>
    /\ corpus_locations = RegisteredLocations
    /\ shutdown_request = "None"
    /\ editor_pending = FALSE
    /\ ops = 0
    /\ lastOp = [op |-> "none", had_undo |-> FALSE, had_redo |-> FALSE, ok |-> TRUE,
                 before |-> None]

\* as InitEdited, and the order in which the workers store their callbacks
\* is recorded in completed
InitOrder ==
    /\ Edited
    /\ mode = "order"
    /\ got = None
    /\ guards = {}
    /\ main_view = "Start"
    /\ held = {}
    /\ ctl = Idle
    /\ current_editor = None
    /\ completed = <<>>
    /\ corpus_locations = RegisteredLocations
    /\ shutdown_request = "None"
    /\ editor_pending = FALSE
    /\ ops = 0
    /\ lastOp = [op |-> "none", had_undo |-> FALSE, had_redo |-> FALSE, ok |-> TRUE,
                 before |-> None]

\* AnnatomicApp::new, for SpecViews
InitViews == InitCommon /\ mode = "views"

\* Project::new, for SpecRegistry
InitRegistry == InitCommon /\ mode = "registry"

\* as InitEdited, for SpecSelect: every call records the selected corpus and
\* the undo history it finds
InitSelect ==
    /\ Edited
    /\ mode = "select"
    /\ got = None
    /\ guards = {}
    /\ main_view = "Start"
    /\ held = {}
    /\ ctl = Idle
    /\ current_editor = None
    /\ completed = <<>>
    /\ corpus_locations = RegisteredLocations
    /\ shutdown_request = "None"
    /\ editor_pending = FALSE
    /\ ops = 0
    /\ lastOp = [op |-> "none", had_undo |-> FALSE, had_redo |-> FALSE, ok |-> TRUE,
                 before |-> None]

\* as InitEdited, for SpecExport
InitExport ==
    /\ Edited
    /\ mode = "export"
    /\ got = None
    /\ guards = {}
    /\ main_view = "Start"
    /\ held = {}
    /\ ctl = Idle
    /\ current_editor = None
    /\ completed = <<>>
    /\ corpus_locations = RegisteredLocations
    /\ shutdown_request = "None"
    /\ editor_pending = FALSE
    /\ ops = 0
    /\ lastOp = [op |-> "none", had_undo |-> FALSE, had_redo |-> FALSE, ok |-> TRUE,
                 before |-> None]

\* as InitEdited, for SpecDelete
InitDelete ==
    /\ Edited
    /\ mode = "delete"
    /\ got = None
    /\ guards = {}
    /\ main_view = "Start"
    /\ held = {}
    /\ ctl = Idle
    /\ current_editor = None
    /\ completed = <<>>
    /\ corpus_locations = RegisteredLocations
    /\ shutdown_request = "None"
    /\ editor_pending = FALSE
    /\ ops = 0
    /\ lastOp = [op |-> "none", had_undo |-> FALSE, had_redo |-> FALSE, ok |-> TRUE,
                 before |-> None]

\* Project::new, and every JobExecutor::add call is recorded in hist
InitTracked == InitCommon /\ mode = "tracked"

\* Project::new, every call is made after the jobs of the previous one are drained
InitSeq == InitCommon /\ mode = "sequential"

\* Project::new, for SpecHistory
InitHistory == InitCommon /\ mode = "history"

\* AnnatomicApp::default, for SpecUi
InitUi == InitCommon /\ mode = "ui"

\* Project::new, for SpecRestart
InitRestart == InitCommon /\ mode = "restart"

\* Project::new, and the handles CorpusCache::get returns are recorded in got
InitCache == InitCommon /\ mode = "cache"

----------------------------------------------------------------------------
(* Calls of the control thread *)

\* the application record of the current state
App == AppOf(selected_corpus, updates_pending, undoer, running, jobs,
             app_graph, hist)

\* write an application record back, freeing unreferenced graph instances
Commit(app, c, h, fin) ==
    /\ selected_corpus' = app.selected_corpus
    /\ updates_pending' = app.updates_pending
    /\ undoer' = app.undoer
    /\ running' = app.running
    /\ jobs' = app.jobs
    /\ app_graph' = app.app_graph
    /\ hist' = app.hist
    /\ cache' = c
    /\ heap' = Collect(h, c, app.jobs, fin, app.app_graph)

\* selected corpus and undo history as a call finds them
Before ==
    IF mode \in {"failure", "delete", "select"}
    THEN Some([selected_corpus |-> selected_corpus, undoer |-> undoer])
    ELSE None

Op(name) == [op |-> name, had_undo |-> has_undo, had_redo |-> has_redo, ok |-> TRUE,
             before |-> Before]

\* a mutation: the new selection is pushed onto the old history
SelectKeepingHistory(app, selection) ==
    IF IsSome(app.selected_corpus) /\ IsSome(selection)
       /\ Unwrap(app.selected_corpus).name = Unwrap(selection)
    THEN app
    ELSE LET app1 ==
               IF IsSome(selection) /\ Unwrap(selection) \in DOMAIN corpus_locations
               THEN LET c == NewCorpus(Unwrap(selection),
                                       corpus_locations[Unwrap(selection)])
                    IN [app EXCEPT !.undoer = UndoerAddUndo(app.undoer, c),
                                   !.selected_corpus = Some(c)]
               ELSE [app EXCEPT !.selected_corpus = None]
         IN update_corpus_structure_job(app1, finished, failed)

\* a mutation: no early return for the corpus that is already selected
SelectAlways(app, selection) ==
    LET app1 ==
          IF IsSome(selection) /\ Unwrap(selection) \in DOMAIN corpus_locations
          THEN LET c == NewCorpus(Unwrap(selection),
                                  corpus_locations[Unwrap(selection)])
               IN [app EXCEPT !.undoer = UndoerAddUndo(default_undoer, c),
                              !.selected_corpus = Some(c)]
          ELSE [app EXCEPT !.selected_corpus = None]
    IN update_corpus_structure_job(app1, finished, failed)

\* Project::select_corpus on the registry `locations`, the job added with the
\* queues fin and fl
SelectWith(app, locations, selection, fin, fl) ==
    IF IsSome(app.selected_corpus) /\ IsSome(selection)
       /\ Unwrap(app.selected_corpus).name = Unwrap(selection)
    THEN app
    ELSE LET app1 ==
               IF IsSome(selection) /\ Unwrap(selection) \in DOMAIN locations
               THEN LET c == NewCorpus(Unwrap(selection),
                                       locations[Unwrap(selection)])
                    IN [app EXCEPT !.undoer = UndoerAddUndo(default_undoer, c),
                                   !.selected_corpus = Some(c)]
               ELSE [app EXCEPT !.selected_corpus = None]
         IN update_corpus_structure_job(app1, fin, fl)

\* Project::select_corpus
SelectResult(app, selection) ==
    SelectWith(app, corpus_locations, selection, finished, failed)

select_corpus(selection) ==
    /\ CanCall
    /\ LET app == SelectResult(App, selection)
       IN /\ Commit(app, cache, heap, finished)
          /\ scen' = IF app.selected_corpus = selected_corpus THEN scen
                     ELSE IF IsSome(app.selected_corpus)
                     THEN [NoScen EXCEPT
                             !.first = scen.first /\ ~scen.active,
                             !.active = TRUE,
                             !.phase = "cs",
                             !.clean = Quiescent,
                             !.base = GraphAt(cache, heap, disk,
                                        Unwrap(app.selected_corpus).location)]
                     ELSE NoScen
    /\ ops' = ops + 1
    /\ lastOp' = Op("select_corpus")
    /\ got' = GotAlive(got, heap')
    /\ UNCHANGED <<disk, finished, failed, exited, mode, main_view, held, ctl, current_editor, completed, corpus_locations, shutdown_request, editor_pending, guards>>

\* `self.corpus_locations.remove(&corpus_name)`: the registry afterwards
RegistryRemove(locations, name) ==
    [n \in DOMAIN locations \ {name} |-> locations[n]]

\* Project::delete_corpus
DeleteResult(app, locations, name) ==
    LET app1 == IF IsSome(app.selected_corpus)
                   /\ Unwrap(app.selected_corpus).name = name
                THEN SelectResult(app, None)
                ELSE app
    IN IF name \in DOMAIN locations
       THEN JobAddDelete(app1, name, locations[name], finished, failed)
       ELSE app1

delete_corpus(name) ==
    /\ CanCall
    /\ Commit(DeleteResult(App, corpus_locations, name), cache, heap, finished)
    /\ corpus_locations' = RegistryRemove(corpus_locations, name)
    /\ scen' = IF IsSome(selected_corpus) /\ Unwrap(selected_corpus).name = name
               THEN NoScen ELSE CalledOther
    /\ ops' = ops + 1
    /\ lastOp' = Op("delete_corpus")
    /\ got' = GotAlive(got, heap')
    /\ UNCHANGED <<disk, finished, failed, exited, mode, main_view, held, ctl, current_editor, completed, shutdown_request,
                   editor_pending, guards>>

\* Project::add_changeset
AddChangesetResult(app, update) ==
    IF IsSome(app.selected_corpus)
    THEN JobAdd([app EXCEPT !.updates_pending = TRUE], "changeset",
                app.selected_corpus, update, finished, failed)
    ELSE app

add_changeset(update) ==
    /\ CanCall
    /\ Commit(AddChangesetResult(App, update), cache, heap, finished)
    /\ scen' = CalledChangeset(update)
    /\ ops' = ops + 1
    /\ lastOp' = Op("add_changeset")
    /\ got' = GotAlive(got, heap')
    /\ UNCHANGED <<disk, finished, failed, exited, mode, main_view, held, ctl, current_editor, completed, corpus_locations, shutdown_request, editor_pending, guards>>

\* Project::undo
UndoResult(app) ==
    IF IsSome(app.selected_corpus)
    THEN LET r == UndoerUndo(app.undoer, Unwrap(app.selected_corpus))
         IN IF IsSome(r.result)
            THEN JobAdd([app EXCEPT !.undoer = r.undoer,
                                    !.selected_corpus = r.result],
                        "undo", r.result, <<>>, finished, failed)
            ELSE [app EXCEPT !.undoer = r.undoer]
    ELSE app

undo ==
    /\ CanCall
    /\ Commit(UndoResult(App), cache, heap, finished)
    /\ scen' = IF IsSome(selected_corpus)
               THEN CalledUndo(has_undo, Unwrap(selected_corpus).diff_to_last_save,
                               SelectedGraph)
               ELSE scen
    /\ ops' = ops + 1
    /\ lastOp' = Op("undo")
    /\ got' = GotAlive(got, heap')
    /\ UNCHANGED <<disk, finished, failed, exited, mode, main_view, held, ctl, current_editor, completed, corpus_locations, shutdown_request, editor_pending, guards>>

\* Project::redo
RedoResult(app) ==
    IF IsSome(app.selected_corpus)
    THEN LET r == UndoerRedo(app.undoer, Unwrap(app.selected_corpus))
         IN IF IsSome(r.result)
            THEN JobAdd([app EXCEPT !.undoer = r.undoer,
                                    !.selected_corpus = r.result],
                        "redo", r.result, <<>>, finished, failed)
            ELSE [app EXCEPT !.undoer = r.undoer]
    ELSE app

redo ==
    /\ CanCall
    /\ Commit(RedoResult(App), cache, heap, finished)
    /\ scen' = CalledRedo
    /\ ops' = ops + 1
    /\ lastOp' = Op("redo")
    /\ got' = GotAlive(got, heap')
    /\ UNCHANGED <<disk, finished, failed, exited, mode, main_view, held, ctl, current_editor, completed, corpus_locations, shutdown_request, editor_pending, guards>>

\* whether a fallible step succeeds: reading the events of the update,
\* importing the graph from disk, writing it back
Outcomes ==
    IF mode \in {"free", "history", "restart", "order", "ui", "export", "select",
                "registry", "views"}
    THEN {TRUE} ELSE BOOLEAN

\* graph.import(location): a location that was removed cannot be imported
ImportOutcomes(d, location) ==
    IF location \in DOMAIN d THEN Outcomes ELSE {FALSE}

\* Project::persist_changes_on_exit, called by on_exit on the control thread:
\* CorpusCache::get (a hit, or a load from disk that may fail), persist_to
\* (which may fail), and only then the reset of the history.  Either `?`
\* returns the Err with the history untouched; a failed persist_to is taken
\* to leave the persisted baseline as it was.
persist_changes_on_exit ==
    /\ CanCall
    /\ \E imported \in Outcomes, written \in Outcomes :
         IF IsSome(selected_corpus)
         THEN LET loc == Unwrap(selected_corpus).location
                  hit == CacheHit(cache, loc)
                  l == load_from_disk(None, heap, disk, loc)
                  h1 == IF hit THEN heap ELSE l.heap
                  c1 == IF hit THEN cache ELSE l.cache
              IN /\ updates_pending' = TRUE
                 /\ IF ~hit /\ ~imported
                    THEN /\ cache' = None
                         /\ heap' = Collect(heap, None, jobs, finished, app_graph)
                         /\ got' = GotEvict(got, loc, heap')
                         /\ UNCHANGED <<disk, undoer>>
                         /\ lastOp' = [Op("persist_changes_on_exit") EXCEPT !.ok = FALSE]
                    ELSE /\ cache' = c1
                         /\ heap' = Collect(h1, c1, jobs, finished, app_graph)
                         /\ got' = GotNote(loc, Unwrap(c1).graph)
                         /\ IF written
                            THEN /\ disk' = [disk EXCEPT ![loc] = h1[Unwrap(c1).graph]]
                                 /\ undoer' = default_undoer
                            ELSE UNCHANGED <<disk, undoer>>
                         /\ lastOp' = [Op("persist_changes_on_exit")
                                          EXCEPT !.ok = written]
         ELSE /\ UNCHANGED <<updates_pending, disk, undoer, cache, heap, got>>
              /\ lastOp' = Op("persist_changes_on_exit")
    /\ exited' = TRUE
    /\ scen' = CalledOther
    /\ ops' = ops + 1
    /\ UNCHANGED <<selected_corpus, running, finished, failed, jobs, app_graph,
                   mode, main_view, held, ctl, current_editor, completed, corpus_locations, shutdown_request, editor_pending, guards, hist>>

\* AnnatomicApp::new on the stored state of the process that exited, then
\* Project::load_after_init(notifier, jobs, MainView::Start): the serialized
\* fields (updates_pending, selected_corpus, corpus_locations) come back, the
\* skipped ones (corpus_cache, jobs, undoer, the editor) are their Default;
\* the diff log of the selection is cleared, the selection is pushed onto the
\* undoer and the structure refresh is scheduled.
load_after_init ==
    /\ exited
    /\ ops < OpsBound
    /\ LET sel == IF IsSome(selected_corpus)
                  THEN Some([Unwrap(selected_corpus) EXCEPT
                                !.diff_to_last_save = <<>>])
                  ELSE None
           und == IF IsSome(sel)
                  THEN UndoerAddUndo(deserialized_undoer, Unwrap(sel))
                  ELSE deserialized_undoer
           app == update_corpus_structure_job(
                      AppOf(sel, updates_pending, und, {}, {}, None, hist),
                      EmptyQueue, EmptyQueue)
       IN /\ selected_corpus' = app.selected_corpus
          /\ undoer' = app.undoer
          /\ running' = app.running
          /\ jobs' = app.jobs
          /\ app_graph' = None
          /\ hist' = app.hist
    /\ cache' = None
    /\ heap' = <<>>
    /\ finished' = EmptyQueue
    /\ failed' = EmptyQueue
    /\ guards' = {}
    /\ completed' = <<>>
    /\ current_editor' = None
    /\ got' = None
    /\ shutdown_request' = "None"
    /\ editor_pending' = FALSE
    /\ exited' = FALSE
    /\ scen' = CalledOther
    /\ ops' = ops + 1
    /\ lastOp' = [op |-> "load_after_init", had_undo |-> FALSE, had_redo |-> FALSE,
                  ok |-> TRUE, before |-> Before]
    /\ UNCHANGED <<updates_pending, disk, mode, main_view, held, ctl, corpus_locations>>

\* Uuid::new_v4(): the directory names new corpora are stored under
Uuids == {"u1", "u2"}

\* the directory names not in use yet
FreshLocations(d, locations) ==
    { u \in Uuids : u \notin DOMAIN d /\ \A n \in DOMAIN locations : locations[n] # u }

\* a graph persisted at a new location
DiskInsert(d, location, content) ==
    [l \in DOMAIN d \cup {location} |-> IF l = location THEN content ELSE d[l]]

\* create_new_corpus of the start view, "Add" clicked: Project::new_empty_corpus
\* persists an empty graph at a new location and registers it under the name;
\* if that succeeds the corpus is selected
create_new_corpus(name) ==
    /\ CanCall
    /\ \E u \in FreshLocations(disk, corpus_locations), persisted \in Outcomes :
         IF persisted
         THEN LET locations == RegistryInsert(corpus_locations, name, u)
              IN /\ disk' = DiskInsert(disk, u, {})
                 /\ corpus_locations' = locations
                 /\ Commit(SelectWith(App, locations, Some(name), finished, failed),
                           cache, heap, finished)
         ELSE /\ Commit(App, cache, heap, finished)
              /\ UNCHANGED <<disk, corpus_locations>>
    /\ scen' = CalledOther
    /\ ops' = ops + 1
    /\ lastOp' = Op("new_empty_corpus")
    /\ got' = GotAlive(got, heap')
    /\ UNCHANGED <<finished, failed, exited, mode, main_view, held, ctl, current_editor, completed,
                   shutdown_request, editor_pending, guards>>

\* import_corpus of the start view, a file a.graphml picked: the job is added;
\* the name of the corpus is the stem of the file name
import_corpus ==
    /\ CanCall
    /\ Commit(JobAdd(App, "import", Some(NewCorpus("a", "a.graphml")), <<>>,
                     finished, failed),
              cache, heap, finished)
    /\ scen' = CalledOther
    /\ ops' = ops + 1
    /\ lastOp' = Op("import_corpus")
    /\ got' = GotAlive(got, heap')
    /\ UNCHANGED <<disk, finished, failed, exited, mode, main_view, held, ctl, current_editor, completed,
                   corpus_locations, shutdown_request, editor_pending, guards>>

\* Project::export_to_graphml(location), for the one export file "out"
export_to_graphml ==
    /\ CanCall
    /\ Commit(IF IsSome(selected_corpus)
              THEN JobAdd(App, "export", selected_corpus, <<>>, finished, failed)
              ELSE App,
              cache, heap, finished)
    /\ scen' = CalledOther
    /\ ops' = ops + 1
    /\ lastOp' = Op("export_to_graphml")
    /\ got' = GotAlive(got, heap')
    /\ UNCHANGED <<disk, finished, failed, exited, mode, main_view, held, ctl, current_editor, completed,
                   corpus_locations, shutdown_request, editor_pending, guards>>

\* the editor that load_editor creates in a view
EditorKind(view) == IF view = "Start" THEN "tree" ELSE "doc"

\* a mutation: the job is added whether or not one of its title is running
load_editor_unguarded(view, app, force_refresh, editor, fin, fl) ==
    IF IsSome(app.selected_corpus)
    THEN IF force_refresh \/ editor = None
         THEN [app |-> JobAdd(app, EditorKind(view), app.selected_corpus, <<>>,
                              fin, fl),
               editor |-> None]
         ELSE [app |-> app, editor |-> editor]
    ELSE [app |-> app, editor |-> IF view = "Start" THEN None ELSE editor]

\* AnnatomicApp::load_editor in the view `view`: the application record and
\* current_editor afterwards
load_editor(view, app, force_refresh, editor, fin, fl) ==
    IF IsSome(app.selected_corpus)
    THEN IF (force_refresh \/ editor = None)
            /\ TitleOf(EditorKind(view)) \notin app.running
         THEN [app |-> JobAdd(app, EditorKind(view), app.selected_corpus, <<>>,
                              fin, fl),
               editor |-> None]
         ELSE [app |-> app, editor |-> editor]
    ELSE [app |-> app, editor |-> IF view = "Start" THEN None ELSE editor]

\* AnnatomicApp::change_view
change_view(new_view) ==
    /\ CanCall
    /\ main_view # new_view
    /\ main_view' = new_view
    /\ LET le == load_editor(new_view, App, TRUE, current_editor, finished, failed)
       IN /\ Commit(le.app, cache, heap, finished)
          /\ current_editor' = le.editor
    /\ scen' = CalledOther
    /\ ops' = ops + 1
    /\ lastOp' = Op("change_view")
    /\ got' = GotAlive(got, heap')
    /\ UNCHANGED <<disk, finished, failed, exited, mode, held, ctl, completed,
                   corpus_locations, shutdown_request, editor_pending, guards>>

\* AnnatomicApp::select_corpus: Project::select_corpus, then load_editor(true)
AppSelectCorpus(selection) ==
    /\ CanCall
    /\ LET le == load_editor(main_view, SelectResult(App, selection), TRUE,
                             current_editor,
                             finished, failed)
       IN /\ Commit(le.app, cache, heap, finished)
          /\ current_editor' = le.editor
    /\ scen' = CalledOther
    /\ ops' = ops + 1
    /\ lastOp' = Op("select_corpus")
    /\ got' = GotAlive(got, heap')
    /\ UNCHANGED <<disk, finished, failed, exited, mode, main_view, held, ctl, completed,
                   corpus_locations, shutdown_request, editor_pending, guards>>

\* the closure `|corpus_tree, app| {...}` of load_editor, run by the drain:
\* current_editor.get_or_init(|| Box::new(corpus_tree))
TreeUpdater(editor, fin) ==
    LET t == TitleOf("tree")
        d == TitleOf("doc")
        e == IF IsSome(fin[t]) /\ editor = None
             THEN Some([location |-> Unwrap(Unwrap(fin[t]).corpus).location])
             ELSE editor
    IN IF IsSome(fin[d]) /\ e = None
       THEN Some([location |-> Unwrap(Unwrap(fin[d]).corpus).location])
       ELSE e

\* eframe::App::update, one UI tick: load_editor(false), then show, whose
\* show_view drains the queues
AppUpdate ==
    /\ ~exited
    /\ LET le == load_editor(main_view, App, FALSE, current_editor, finished, failed)
           hs == ReportFailed(hist, failed, 1)
           app == RunFinished([le.app EXCEPT !.hist = hs], finished, 1)
       IN /\ Commit(app, cache, heap, AfterPopLoop(finished))
          /\ current_editor' = TreeUpdater(le.editor, finished)
    /\ finished' = AfterPopLoop(finished)
    /\ failed' = AfterPopLoop(failed)
    /\ completed' = <<>>
    /\ got' = GotAlive(got, heap')
    /\ UNCHANGED <<disk, exited, mode, main_view, held, ctl, corpus_locations, shutdown_request,
                   editor_pending, guards, ops, scen, lastOp>>

\* JobExecutor::show: report the failed jobs, run the finished callbacks
show ==
    /\ ~exited
    /\ finished # EmptyQueue \/ failed # EmptyQueue
    /\ LET hs == ReportFailed(hist, failed, 1)
           app == RunFinished([App EXCEPT !.hist = hs], finished, 1)
       IN Commit(app, cache, heap, AfterPopLoop(finished))
    /\ finished' = AfterPopLoop(finished)
    /\ failed' = AfterPopLoop(failed)
    /\ completed' = <<>>
    /\ corpus_locations' = RegistryAfterDrain(corpus_locations, finished)
    /\ got' = GotAlive(got, heap')
    /\ UNCHANGED <<disk, exited, mode, main_view, held, ctl, current_editor, shutdown_request, editor_pending, guards, ops, scen, lastOp>>


----------------------------------------------------------------------------
(* The editor and the shutdown sequence of AnnatomicApp *)

\* the user changes something in the current editor: a pending action
EditorEdit ==
    /\ ~exited
    /\ shutdown_request = "None"
    /\ IsSome(selected_corpus)
    /\ ~editor_pending
    /\ editor_pending' = TRUE
    /\ UNCHANGED <<selected_corpus, updates_pending, undoer, cache, heap, disk,
                   running, finished, failed, jobs, app_graph, exited, mode, main_view, held, ctl, current_editor, completed, ops,
                   hist, scen, corpus_locations, shutdown_request, guards, got,
                   lastOp>>

\* AnnatomicApp::apply_pending_updates -> apply_pending_updates_for_editor:
\* the pending actions are taken and handed to a job
apply_pending_updates(app, pending, update) ==
    IF pending
    THEN JobAdd(app, "editor", app.selected_corpus, update, finished, failed)
    ELSE app

\* a mutation: the close request is forgotten once the jobs have ended
AfterRequestedDrainReset(app) ==
    IF app.running = {} THEN "None" ELSE "Requested"

\* the Requested branch of AnnatomicApp::show after the drain:
\* `if !self.jobs.clone().show(ui, self) { shutdown_request = ShutdownIsSafe }`
AfterRequestedDrain(app) ==
    IF app.running = {} THEN "ShutdownIsSafe" ELSE "Requested"

\* AnnatomicApp::show when the window is asked to close while the state is
\* None.  With pending edits the close is cancelled, the edits are flushed and
\* the state becomes Requested; the `match` that follows in the same call
\* then takes the Requested branch, which drains the queues.  Without pending
\* edits the state becomes ShutdownIsSafe and nothing is drained.
CloseRequested(update) ==
    /\ ~exited
    /\ shutdown_request = "None"
    /\ IF editor_pending
       THEN LET flushed == apply_pending_updates(App, editor_pending, update)
                hs == ReportFailed(flushed.hist, failed, 1)
                app == RunFinished([flushed EXCEPT !.hist = hs], finished, 1)
            IN /\ Commit(app, cache, heap, AfterPopLoop(finished))
               /\ shutdown_request' = AfterRequestedDrain(app)
               /\ finished' = AfterPopLoop(finished)
               /\ failed' = AfterPopLoop(failed)
       ELSE /\ Commit(App, cache, heap, finished)
            /\ shutdown_request' = "ShutdownIsSafe"
            /\ UNCHANGED <<finished, failed>>
    /\ editor_pending' = FALSE
    /\ lastOp' = Op("close")
    /\ got' = GotAlive(got, heap')
    /\ UNCHANGED <<disk, exited, mode, main_view, held, ctl, current_editor, completed, ops, scen,
                   corpus_locations, guards>>

\* AnnatomicApp::show, `ShutdownRequest::Requested`: drain, and the shutdown is
\* safe when JobExecutor::show reports no running job
ShowRequested ==
    /\ ~exited
    /\ shutdown_request = "Requested"
    /\ LET hs == ReportFailed(hist, failed, 1)
           app == RunFinished([App EXCEPT !.hist = hs], finished, 1)
       IN /\ Commit(app, cache, heap, AfterPopLoop(finished))
          /\ shutdown_request' = AfterRequestedDrain(app)
    /\ finished' = AfterPopLoop(finished)
    /\ failed' = AfterPopLoop(failed)
    /\ got' = GotAlive(got, heap')
    /\ UNCHANGED <<disk, exited, mode, main_view, held, ctl, current_editor, completed, ops, scen, lastOp, corpus_locations,
                   editor_pending, guards>>

----------------------------------------------------------------------------
(* Workers: the closure that JobExecutor::add hands to rayon::spawn *)

Replace(js, j, j2) == (js \ {j}) \cup {j2}

\* the worker returned: Ok(result) or Err
Returned(j, ok) == [j EXCEPT !.pc = "deliver", !.ok = ok]

RecordReturn(hs, j, ok) ==
    HistSet(hs, j.serial, "worker", IF ok THEN "ok" ELSE "err")

\* `finished_jobs.insert(title, ..)` seen from outside: the titles in the
\* order their present entries were stored
Completed(done, title, ok) ==
    IF mode = "order" /\ ok
    THEN Append(SelectSeq(done, LAMBDA t : t # title), title)
    ELSE done

\* position of a worker that holds its graph handle
AfterGet(j) ==
    IF j.kind = "export" THEN "export"
    ELSE IF j.kind \notin {"structure", "tree", "doc"} THEN "work"
    ELSE IF mode \in LockModes THEN "ensure" ELSE "deliver"

\* the closure of apply_pending_updates_for_editor: the pending actions are
\* turned into a GraphUpdate
WorkerEditor(j) ==
    /\ ~exited
    /\ j.pc = "start"
    /\ j.kind = "editor"
    /\ \E ok \in Outcomes :
         /\ jobs' = Replace(jobs, j, Returned(j, ok))
         /\ hist' = RecordReturn(HistInc(hist, j.serial, "runs"), j, ok)
    /\ UNCHANGED <<selected_corpus, updates_pending, undoer, cache, heap, disk,
                   running, finished, failed, app_graph, exited, mode, main_view, held, ctl, current_editor, completed, ops, scen,
                   corpus_locations, shutdown_request, editor_pending, guards,
                   got, lastOp>>

\* The worker starts.  update_corpus_structure_job and add_changeset call
\* CorpusCache::get; this is its first critical section: a hit returns the
\* cached handle, anything else empties the slot and goes on to load_from_disk.
\* `update.len()?` / `update.iter()?` of add_changeset may fail before that.
WorkerGet(j) ==
    /\ ~exited
    /\ j.pc = "start"
    /\ j.kind \in {"structure", "changeset", "tree", "doc", "export"}
    /\ LockFree(held, "slot")
    /\ \E extracted \in IF j.kind = "changeset" THEN Outcomes ELSE {TRUE} :
         LET hs == HistInc(hist, j.serial, "runs")
         IN IF ~extracted
            THEN /\ jobs' = Replace(jobs, j, Returned(j, FALSE))
                 /\ hist' = RecordReturn(hs, j, FALSE)
                 /\ scen' = [scen EXCEPT !.nofail = FALSE, !.applied = <<>>]
                 /\ UNCHANGED <<cache, heap, got>>
            ELSE IF ~IsSome(j.corpus)
            THEN /\ jobs' = Replace(jobs, j, Returned(j, TRUE))
                 /\ hist' = RecordReturn(hs, j, TRUE)
                 /\ UNCHANGED <<cache, heap, scen, got>>
            ELSE IF CacheHit(cache, Unwrap(j.corpus).location)
            THEN LET j2 == [j EXCEPT !.handle = Unwrap(cache).graph,
                                     !.pc = AfterGet(j)]
                 IN /\ jobs' = Replace(jobs, j, IF j2.pc = "deliver"
                                                THEN Returned(j2, TRUE) ELSE j2)
                    /\ hist' = IF j2.pc = "deliver"
                               THEN RecordReturn(hs, j, TRUE) ELSE hs
                    /\ got' = GotNote(Unwrap(j.corpus).location,
                                      Unwrap(cache).graph)
                    /\ UNCHANGED <<cache, heap, scen>>
            ELSE LET js == Replace(jobs, j, [j EXCEPT !.pc = "load"])
                 IN /\ jobs' = js
                    /\ hist' = hs
                    /\ cache' = None
                    /\ heap' = Collect(heap, None, js, finished, app_graph)
                    /\ got' = GotEvict(got, Unwrap(j.corpus).location, heap')
                    /\ UNCHANGED scen
    /\ UNCHANGED <<selected_corpus, updates_pending, undoer, disk, running,
                   finished, failed, app_graph, exited, mode, main_view, held, ctl, current_editor, completed, corpus_locations, shutdown_request, editor_pending, guards, ops, lastOp>>

\* CorpusCache::load_from_disk: import the persisted graph into a new instance
\* and install it in the slot, all under the slot's write lock.  Reached after
\* a miss of get, and directly by the workers of undo and redo.
WorkerLoad(j) ==
    /\ ~exited
    /\ IF mode = "wait" THEN j.pc = "loading"
       ELSE j.pc = "load" \/ (j.pc = "start" /\ j.kind \in {"undo", "redo"})
    /\ held' = { g \in held : g.owner # j.id }
    /\ \E imported \in ImportOutcomes(disk, Unwrap(j.corpus).location) :
         LET hs == IF j.pc = "start" THEN HistInc(hist, j.serial, "runs") ELSE hist
             loc == Unwrap(j.corpus).location
         IN IF ~imported
            THEN /\ jobs' = Replace(jobs, j, Returned(j, FALSE))
                 /\ hist' = RecordReturn(hs, j, FALSE)
                 /\ scen' = [scen EXCEPT !.nofail = FALSE, !.applied = <<>>]
                 /\ UNCHANGED <<cache, heap, got>>
            ELSE LET l == load_from_disk(cache, heap, disk, loc)
                     j2 == [j EXCEPT !.handle = l.handle, !.pc = AfterGet(j)]
                     j3 == IF j2.pc = "deliver" THEN Returned(j2, TRUE) ELSE j2
                     js == Replace(jobs, j, j3)
                 IN /\ jobs' = js
                    /\ hist' = IF j2.pc = "deliver"
                               THEN RecordReturn(hs, j, TRUE) ELSE hs
                    /\ cache' = l.cache
                    /\ heap' = Collect(l.heap, l.cache, js, finished, app_graph)
                    /\ got' = IF j.pc = "load" THEN GotNote(loc, l.handle)
                              ELSE GotAlive(got, heap')
                    /\ UNCHANGED scen
    /\ UNCHANGED <<selected_corpus, updates_pending, undoer, disk, running,
                   finished, failed, app_graph, exited, mode, main_view, ctl, current_editor, completed, corpus_locations, shutdown_request, editor_pending, guards, ops, lastOp>>

\* the events a worker applies under graph.write(): the changeset itself, or
\* the diff_to_last_save of the snapshot undo/redo moved to
EventsToApply(j) ==
    IF j.kind = "changeset" THEN j.events
    ELSE Unwrap(j.corpus).diff_to_last_save

\* the closure of export_to_graphml once get has returned the graph:
\* File::create(location), `graph.read()`, export_stable_order(&graph, ..)
WorkerExport(j) ==
    /\ ~exited
    /\ j.pc = "export"
    /\ \E written \in Outcomes :
         /\ jobs' = Replace(jobs, j, Returned(j, written))
         /\ hist' = RecordReturn(hist, j, written)
    /\ UNCHANGED <<selected_corpus, updates_pending, undoer, cache, heap, disk,
                   running, finished, failed, app_graph, exited, mode, main_view, held, ctl,
                   current_editor, completed, corpus_locations, shutdown_request,
                   editor_pending, guards, ops, scen, got, lastOp>>

\* `graph.write()` + apply_update_keep_statistics on the handle the worker holds
WorkerApply(j) ==
    /\ ~exited
    /\ mode \notin LockModes
    /\ j.pc = "work"
    /\ jobs' = Replace(jobs, j, Returned(j, TRUE))
    /\ heap' = [heap EXCEPT ![j.handle] = ApplyUpdate(@, EventsToApply(j))]
    /\ hist' = RecordReturn(hist, j, TRUE)
    /\ scen' = IF j.kind = "changeset"
               THEN [scen EXCEPT !.applied = IF scen.phase = "cs" /\ scen.nofail
                                             THEN @ \o j.events ELSE <<>>]
               ELSE scen
    /\ UNCHANGED <<selected_corpus, updates_pending, undoer, cache, disk, running,
                   finished, failed, app_graph, exited, mode, main_view, held, ctl, current_editor, completed, corpus_locations, shutdown_request, editor_pending, guards, ops, got, lastOp>>

\* a mutation: write() is granted while other guards are held
CanWriteAlways(gs, h) == TRUE

\* RwLock::write is granted when no guard is held on the instance
CanWrite(gs, h) == \A g \in gs : g.handle # h

\* RwLock::read is granted when no write guard is held on the instance
CanRead(gs, h) == \A g \in gs : g.handle = h => g.kind = "r"

GuardOf(j) == CHOOSE g \in guards : g.id = j.id

LockUnchanged ==
    UNCHANGED <<selected_corpus, updates_pending, undoer, cache, disk, running,
                finished, failed, app_graph, exited, mode, main_view, held, ctl, current_editor, completed, corpus_locations, shutdown_request, editor_pending, ops, got, lastOp>>

\* `graph.write()` of the workers of add_changeset, undo and redo
WorkerLockWrite(j) ==
    /\ ~exited
    /\ mode \in LockModes
    /\ j.pc = "work"
    /\ CanWrite(guards, j.handle)
    /\ guards' = guards \cup {[id |-> j.id, handle |-> j.handle, kind |-> "w",
                                done |-> 0]}
    /\ jobs' = Replace(jobs, j, [j EXCEPT !.pc = "apply"])
    /\ UNCHANGED <<heap, hist, scen>>
    /\ LockUnchanged

\* apply_update_keep_statistics: the next event of the batch, under the guard
WorkerApplyEvent(j) ==
    /\ ~exited
    /\ j.pc = "apply"
    /\ GuardOf(j).done < Len(EventsToApply(j))
    /\ LET g == GuardOf(j)
       IN /\ heap' = [heap EXCEPT ![j.handle] =
                         ApplyEvent(@, EventsToApply(j)[g.done + 1])]
          /\ guards' = (guards \ {g}) \cup {[g EXCEPT !.done = @ + 1]}
    /\ UNCHANGED <<jobs, hist, scen>>
    /\ LockUnchanged

\* a mutation: the write guard outlives the block it was taken in
KeptGuards(j) == {}

\* the end of the block `{ let mut graph = lock.write(); ... }`: the guard of
\* the worker is dropped
DroppedGuards(j) == {GuardOf(j)}

\* the batch is applied: the write guard is dropped and the worker returns Ok
WorkerUnlockWrite(j) ==
    /\ ~exited
    /\ j.pc = "apply"
    /\ GuardOf(j).done = Len(EventsToApply(j))
    /\ guards' = guards \ DroppedGuards(j)
    /\ jobs' = Replace(jobs, j, Returned(j, TRUE))
    /\ hist' = RecordReturn(hist, j, TRUE)
    /\ scen' = IF j.kind = "changeset"
               THEN [scen EXCEPT !.applied = IF scen.phase = "cs" /\ scen.nofail
                                             THEN @ \o j.events ELSE <<>>]
               ELSE scen
    /\ UNCHANGED heap
    /\ LockUnchanged

\* CorpusTree::create_from_graph: `graph.write()` around ensure_loaded_parallel,
\* taken and dropped again before anything is read
WorkerEnsureLoaded(j) ==
    /\ ~exited
    /\ j.pc = "ensure"
    /\ CanWrite(guards, j.handle)
    /\ jobs' = Replace(jobs, j, [j EXCEPT !.pc = "read"])
    /\ UNCHANGED <<heap, hist, scen, guards>>
    /\ LockUnchanged

\* CorpusTree::create_from_graph: `graph.read()`
WorkerLockRead(j) ==
    /\ ~exited
    /\ j.pc = "read"
    /\ CanRead(guards, j.handle)
    /\ guards' = guards \cup {[id |-> j.id, handle |-> j.handle, kind |-> "r",
                                done |-> 0]}
    /\ jobs' = Replace(jobs, j, [j EXCEPT !.pc = "reading"])
    /\ UNCHANGED <<heap, hist, scen>>
    /\ LockUnchanged

\* the corpus tree is built: the read guard is dropped, the worker returns Ok
WorkerUnlockRead(j) ==
    /\ ~exited
    /\ j.pc = "reading"
    /\ guards' = guards \ {GuardOf(j)}
    /\ jobs' = Replace(jobs, j, Returned(j, TRUE))
    /\ hist' = RecordReturn(hist, j, TRUE)
    /\ UNCHANGED <<heap, scen>>
    /\ LockUnchanged

PayloadOf(j) ==
    [id |-> j.id, serial |-> j.serial, title |-> j.title, kind |-> j.kind,
     events |-> j.events, handle |-> j.handle, corpus |-> j.corpus]

\* BTreeMap::insert: a value already stored under the key is replaced
QueueInsert(q, title, p) == [q EXCEPT ![title] = Some(p)]

\* the entry an insert under this title throws away
Overwritten(hs, q, title) ==
    IF IsSome(q[title]) THEN HistSet(hs, Unwrap(q[title]).serial, "lost", TRUE)
    ELSE hs

\* a mutation: the worker runs the state_updater itself instead of queueing it
WorkerDeliverInline(j) ==
    /\ ~exited
    /\ j.pc = "deliver"
    /\ LET js == Replace(jobs, j, [j EXCEPT !.pc = "remove", !.handle = 0])
           app == [App EXCEPT !.jobs = js]
       IN Commit(IF j.ok THEN StateUpdater(app, PayloadOf(j), finished, failed)
                         ELSE app,
                 cache, heap, finished)
    /\ finished' = finished
    /\ failed' = IF j.ok THEN failed
                 ELSE QueueInsert(failed, j.title, [PayloadOf(j) EXCEPT !.handle = 0])
    /\ got' = GotAlive(got, heap')
    /\ UNCHANGED <<disk, exited, mode, main_view, held, ctl, current_editor, completed, corpus_locations, shutdown_request, editor_pending, guards, ops, scen, lastOp>>

\* the closure of delete_corpus: std::fs::remove_dir_all(location)
WorkerDelete(j) ==
    /\ ~exited
    /\ j.pc = "start"
    /\ j.kind = "delete"
    /\ \E removed \in Outcomes :
         LET loc == Unwrap(j.corpus).location
             ok == removed /\ loc \in DOMAIN disk
         IN /\ disk' = IF ok THEN [l \in DOMAIN disk \ {loc} |-> disk[l]] ELSE disk
            /\ jobs' = Replace(jobs, j, Returned(j, ok))
            /\ hist' = RecordReturn(HistInc(hist, j.serial, "runs"), j, ok)
    /\ UNCHANGED <<selected_corpus, updates_pending, undoer, cache, heap, running,
                   finished, failed, app_graph, exited, mode, main_view, held, ctl, current_editor, completed, ops, scen,
                   corpus_locations, shutdown_request, editor_pending, guards,
                   got, lastOp>>

\* the worker closure of import_corpus: the file is parsed, the graph is
\* persisted at a new location and (name, location) is returned
WorkerImport(j) ==
    /\ ~exited
    /\ j.pc = "start"
    /\ j.kind = "import"
    /\ \E u \in FreshLocations(disk, corpus_locations), imported \in Outcomes :
         /\ disk' = IF imported THEN DiskInsert(disk, u, {"n1"}) ELSE disk
         /\ jobs' = Replace(jobs, j,
                       Returned([j EXCEPT !.corpus =
                                    Some(NewCorpus(Unwrap(j.corpus).name, u))],
                                imported))
         /\ hist' = RecordReturn(HistInc(hist, j.serial, "runs"), j, imported)
    /\ UNCHANGED <<selected_corpus, updates_pending, undoer, cache, heap, running,
                   finished, failed, app_graph, exited, mode, main_view, held, ctl, current_editor,
                   completed, ops, scen, corpus_locations, shutdown_request,
                   editor_pending, guards, got, lastOp>>

\* a mutation: the callback is stored in finished whatever the worker returned
WorkerDeliverAlways(j) ==
    /\ ~exited
    /\ j.pc = "deliver"
    /\ LET js == Replace(jobs, j, [j EXCEPT !.pc = "remove", !.handle = 0])
       IN /\ jobs' = js
          /\ finished' = QueueInsert(finished, j.title, PayloadOf(j))
          /\ hist' = Overwritten(hist, finished, j.title)
          /\ failed' = failed
          /\ heap' = Collect(heap, cache, js, finished', app_graph)
    /\ completed' = Completed(completed, j.title, TRUE)
    /\ got' = GotAlive(got, heap')
    /\ UNCHANGED <<selected_corpus, updates_pending, undoer, cache, disk, running,
                   app_graph, exited, mode, main_view, held, ctl, current_editor, corpus_locations, shutdown_request,
                   editor_pending, guards, ops, scen, lastOp>>

\* `match result`: store the boxed callback in finished, or the error in failed
WorkerDeliver(j) ==
    /\ ~exited
    /\ j.pc = "deliver"
    /\ LockFree(held, IF j.ok THEN "finished" ELSE "failed")
    /\ LET js == Replace(jobs, j, [j EXCEPT !.pc = "remove", !.handle = 0])
       IN /\ jobs' = js
          /\ IF j.ok
             THEN /\ finished' = QueueInsert(finished, j.title, PayloadOf(j))
                  /\ hist' = Overwritten(hist, finished, j.title)
                  /\ failed' = failed
             ELSE /\ failed' = QueueInsert(failed, j.title,
                                           [PayloadOf(j) EXCEPT !.handle = 0])
                  /\ hist' = Overwritten(hist, failed, j.title)
                  /\ finished' = finished
          /\ heap' = Collect(heap, cache, js, finished', app_graph)
    /\ completed' = Completed(completed, j.title, j.ok)
    /\ got' = GotAlive(got, heap')
    /\ UNCHANGED <<selected_corpus, updates_pending, undoer, cache, disk, running,
                   app_graph, exited, mode, main_view, held, ctl, current_editor, corpus_locations, shutdown_request, editor_pending, guards, ops, scen, lastOp>>

\* `jobs.remove(&title)`: the last statement of the spawned closure
WorkerRemove(j) ==
    /\ ~exited
    /\ j.pc = "remove"
    /\ LockFree(held, "running")
    /\ running' = running \ {j.title}
    /\ jobs' = jobs \ {j}
    /\ UNCHANGED <<selected_corpus, updates_pending, undoer, cache, heap, disk,
                   finished, failed, app_graph, exited, mode, main_view, held, ctl, current_editor, completed, corpus_locations, shutdown_request, editor_pending, guards, ops, hist,
                   scen, got, lastOp>>

----------------------------------------------------------------------------
(* Specifications *)

Selections == {None} \cup { Some(c) : c \in Corpora }

Updates == IF mode = "sequential" THEN SeqChangesets ELSE Changesets

Next ==
    \/ \E s \in Selections : select_corpus(s)
    \/ \E u \in Updates : add_changeset(u)
    \/ undo
    \/ redo
    \/ persist_changes_on_exit
    \/ show
    \/ \E j \in jobs : WorkerGet(j)
    \/ \E j \in jobs : WorkerLoad(j)
    \/ \E j \in jobs : WorkerApply(j)
    \/ \E j \in jobs : WorkerDeliver(j)
    \/ \E j \in jobs : WorkerRemove(j)

\* calls, workers and drains interleave freely
Spec == Init /\ [][Next]_vars

\* as Spec, from the state Edited
SpecEdited == InitEdited /\ [][Next]_vars

\* as Spec, with hist recorded for every JobExecutor::add call
SpecTracked == InitTracked /\ [][Next]_vars

\* every call waits until the jobs of the previous one are drained
SpecSeq == InitSeq /\ [][Next]_vars

\* as Spec, with the handles returned by CorpusCache::get recorded in got
SpecCache == InitCache /\ [][Next]_vars

\* One corpus is selected once, then non-empty changesets are added, then
\* undo() is called, each call after the jobs of the previous one are drained
\* and no job failing.
NextHistory ==
    \/ selected_corpus = None /\ select_corpus(Some("a"))
    \/ scen.phase = "cs" /\ add_changeset(<<AddN("n1")>>)
    \/ undo
    \/ show
    \/ \E j \in jobs : WorkerGet(j)
    \/ \E j \in jobs : WorkerLoad(j)
    \/ \E j \in jobs : WorkerApply(j)
    \/ \E j \in jobs : WorkerDeliver(j)
    \/ \E j \in jobs : WorkerRemove(j)

SpecHistory == InitHistory /\ [][NextHistory]_vars

\* One corpus is selected once and edited; the application may exit and be
\* started again on its stored state.  Each call is made after the jobs of
\* the previous one are drained and no job fails.
NextRestart ==
    \/ selected_corpus = None /\ select_corpus(Some("a"))
    \/ add_changeset(<<AddN("n1")>>)
    \/ undo
    \/ redo
    \/ persist_changes_on_exit
    \/ load_after_init
    \/ show
    \/ \E j \in jobs : WorkerGet(j)
    \/ \E j \in jobs : WorkerLoad(j)
    \/ \E j \in jobs : WorkerApply(j)
    \/ \E j \in jobs : WorkerDeliver(j)
    \/ \E j \in jobs : WorkerRemove(j)

SpecRestart == InitRestart /\ [][NextRestart]_vars

\* the batch the editors hand to add_changeset in SpecLocks
LockUpdate == <<DelN("n1"), AddN("n1")>>

\* add_changeset and undo on the edited corpus, the workers taking the
\* locks of the graph one step at a time
NextLocks ==
    \/ add_changeset(LockUpdate)
    \/ undo
    \/ show
    \/ \E j \in jobs : WorkerGet(j)
    \/ \E j \in jobs : WorkerLoad(j)
    \/ \E j \in jobs : WorkerLockWrite(j)
    \/ \E j \in jobs : WorkerApplyEvent(j)
    \/ \E j \in jobs : WorkerUnlockWrite(j)
    \/ \E j \in jobs : WorkerEnsureLoaded(j)
    \/ \E j \in jobs : WorkerLockRead(j)
    \/ \E j \in jobs : WorkerUnlockRead(j)
    \/ \E j \in jobs : WorkerDeliver(j)
    \/ \E j \in jobs : WorkerRemove(j)

SpecLocks == InitLocks /\ [][NextLocks]_vars

\* the GraphUpdate the pending actions of the editor amount to in SpecShutdown
EditorUpdate == <<DelN("n1")>>

SpecFail == InitFail /\ [][Next]_vars

SpecOrder == InitOrder /\ [][Next]_vars

\* Corpora are selected, deleted, created and imported in the start view.
NextRegistry ==
    \/ \E s \in Selections : select_corpus(s)
    \/ \E n \in Corpora : delete_corpus(n)
    \/ \E n \in Corpora : create_new_corpus(n)
    \/ import_corpus
    \/ show
    \/ \E j \in jobs : WorkerGet(j)
    \/ \E j \in jobs : WorkerLoad(j)
    \/ \E j \in jobs : WorkerDelete(j)
    \/ \E j \in jobs : WorkerImport(j)
    \/ \E j \in jobs : WorkerDeliver(j)
    \/ \E j \in jobs : WorkerRemove(j)

SpecRegistry == InitRegistry /\ [][NextRegistry]_vars

\* Corpora are selected and deleted while the jobs of earlier calls run.
NextSelect ==
    \/ \E s \in Selections : select_corpus(s)
    \/ \E n \in Corpora : delete_corpus(n)
    \/ show
    \/ \E j \in jobs : WorkerGet(j)
    \/ \E j \in jobs : WorkerLoad(j)
    \/ \E j \in jobs : WorkerDelete(j)
    \/ \E j \in jobs : WorkerDeliver(j)
    \/ \E j \in jobs : WorkerRemove(j)

SpecSelect == InitSelect /\ [][NextSelect]_vars

\* The edited corpus is exported while corpora are selected and edited.
NextExport ==
    \/ \E s \in Selections : select_corpus(s)
    \/ add_changeset(<<DelN("n1")>>)
    \/ export_to_graphml
    \/ show
    \/ \E j \in jobs : WorkerGet(j)
    \/ \E j \in jobs : WorkerLoad(j)
    \/ \E j \in jobs : WorkerApply(j)
    \/ \E j \in jobs : WorkerExport(j)
    \/ \E j \in jobs : WorkerDeliver(j)
    \/ \E j \in jobs : WorkerRemove(j)

SpecExport == InitExport /\ [][NextExport]_vars

\* a step of one of the spawned closures of SpecUi
UiWorker ==
    \E j \in jobs : \/ WorkerGet(j)
                    \/ WorkerLoad(j)
                    \/ WorkerDeliver(j)
                    \/ WorkerRemove(j)

\* The user selects corpora in the start view; the UI ticks.
NextUi ==
    \/ \E s \in Selections : AppSelectCorpus(s)
    \/ AppUpdate
    \/ UiWorker

\* eframe keeps calling update while jobs are running, and the thread pool
\* runs every spawned closure to its end
SpecUi == InitUi /\ [][NextUi]_vars /\ WF_vars(AppUpdate) /\ WF_vars(UiWorker)

----------------------------------------------------------------------------
(* The locks of JobExecutor and CorpusCache, one acquisition per step *)

\* as InitLocks, for SpecWait: the control thread and the workers take and
\* drop every lock in a step of its own
InitWait ==
    /\ mode = "wait"
    /\ LET c0 == NewCorpus("a", RegisteredLocations["a"])
           c1 == [c0 EXCEPT !.diff_to_last_save = <<AddN("n1")>>]
           app == update_corpus_structure_job(
                      AppOf(Some(c1), FALSE, [default_undoer EXCEPT !.undos = <<c0, c1>>],
                            {}, {}, Some(1), <<>>),
                      EmptyQueue, EmptyQueue)
       IN /\ selected_corpus = app.selected_corpus
          /\ updates_pending = app.updates_pending
          /\ undoer = app.undoer
          /\ running = app.running
          /\ jobs = app.jobs
          /\ app_graph = app.app_graph
          /\ hist = app.hist
          /\ cache = Some([location |-> c1.location, graph |-> 1])
          /\ heap = <<{"n1"}>>
          /\ scen = [NoScen EXCEPT !.first = TRUE, !.active = TRUE, !.phase = "cs",
                                   !.edits = << <<AddN("n1")>> >>, !.clean = TRUE,
                                   !.base = InitialDisk["a"],
                                   !.applied = <<AddN("n1")>>]
    /\ disk = InitialDisk
    /\ finished = EmptyQueue
    /\ failed = EmptyQueue
    /\ exited = FALSE
    /\ got = None
    /\ guards = {}
    /\ main_view = "Start"
    /\ held = {}
    /\ ctl = Idle
    /\ current_editor = None
    /\ completed = <<>>
    /\ corpus_locations = RegisteredLocations
    /\ shutdown_request = "None"
    /\ editor_pending = FALSE
    /\ ops = 0
    /\ lastOp = [op |-> "none", had_undo |-> FALSE, had_redo |-> FALSE, ok |-> TRUE,
                 before |-> None]

\* what the control thread leaves alone while it is inside JobExecutor::show
ShowUnchanged ==
    UNCHANGED <<disk, exited, mode, main_view, current_editor, completed,
                corpus_locations, shutdown_request, editor_pending, guards, ops,
                scen, lastOp>>

\* JobExecutor::show: `self.failed.write()` and the loop that reports the
\* errors; the guard lives to the end of the function
ShowLockFailed ==
    /\ ~exited
    /\ ctl.pc = "idle"
    /\ LockFree(held, "failed")
    /\ held' = held \cup {[lock |-> "failed", owner |-> 0, kind |-> "w"]}
    /\ ctl' = [ctl EXCEPT !.pc = "failed"]
    /\ hist' = ReportFailed(hist, failed, 1)
    /\ failed' = AfterPopLoop(failed)
    /\ got' = got
    /\ UNCHANGED <<selected_corpus, updates_pending, undoer, cache, heap, running,
                   finished, jobs, app_graph>>
    /\ ShowUnchanged

\* JobExecutor::show: `self.finished.write()`, held to the end of the function
ShowLockFinished ==
    /\ ctl.pc = "failed"
    /\ LockFree(held, "finished")
    /\ held' = held \cup {[lock |-> "finished", owner |-> 0, kind |-> "w"]}
    /\ ctl' = [ctl EXCEPT !.pc = "drain"]
    /\ UNCHANGED <<selected_corpus, updates_pending, undoer, cache, heap, running,
                   finished, failed, jobs, app_graph, hist, got>>
    /\ ShowUnchanged

\* the callback `pop_first` yields next
NextCallback(fin) ==
    LET t == CHOOSE x \in Titles :
               /\ IsSome(fin[x])
               /\ \A i, k \in 1..Len(TitleOrder) :
                     (TitleOrder[i] = x /\ k < i) => ~IsSome(fin[TitleOrder[k]])
    IN Unwrap(fin[t])

\* the locks a state_updater takes while it runs: running.write() in
\* JobExecutor::add for the callbacks that add a job, graph.read() in
\* CorpusTree::select_corpus_node for the callback of the structure refresh
CallbackCanRun(p) ==
    /\ p.kind \in {"changeset", "undo", "redo", "editor"}
          => LockFree(held, "running")
    /\ (p.kind = "structure" /\ p.handle # 0) => CanRead(guards, p.handle)

\* JobExecutor::show: one turn of `while let Some(j) = finished_jobs.pop_first()`
ShowCallback ==
    /\ ctl.pc = "drain"
    /\ finished # EmptyQueue
    /\ LET p == NextCallback(finished)
           rest == [finished EXCEPT ![p.title] = None]
       IN /\ CallbackCanRun(p)
          /\ Commit(StateUpdater(App, p, rest, EmptyQueue), cache, heap, rest)
          /\ finished' = rest
    /\ got' = GotAlive(got, heap')
    /\ UNCHANGED <<failed, held, ctl>>
    /\ ShowUnchanged

\* JobExecutor::show: `self.running.read()` once the loop has ended
ShowLockRunning ==
    /\ ctl.pc = "drain"
    /\ finished = EmptyQueue
    /\ LockReadable(held, "running")
    /\ held' = held \cup {[lock |-> "running", owner |-> 0, kind |-> "r"]}
    /\ ctl' = [ctl EXCEPT !.pc = "listing"]
    /\ UNCHANGED <<selected_corpus, updates_pending, undoer, cache, heap, running,
                   finished, failed, jobs, app_graph, hist, got>>
    /\ ShowUnchanged

\* JobExecutor::show returns: the three guards are dropped
ShowReturn ==
    /\ ctl.pc = "listing"
    /\ held' = { g \in held : g.owner # 0 }
    /\ ctl' = Idle
    /\ UNCHANGED <<selected_corpus, updates_pending, undoer, cache, heap, running,
                   finished, failed, jobs, app_graph, hist, got>>
    /\ ShowUnchanged

\* a step of the control thread inside JobExecutor::show
ShowStep ==
    \/ ShowLockFailed
    \/ ShowLockFinished
    \/ ShowCallback
    \/ ShowLockRunning
    \/ ShowReturn

\* persist_changes_on_exit up to `corpus_cache.get(&selected_corpus)?`: the
\* slot is locked for the lookup and, on a miss, for load_from_disk
PersistGet ==
    /\ CanCall
    /\ LockFree(held, "slot")
    /\ \E imported \in Outcomes :
         IF IsSome(selected_corpus)
         THEN LET loc == Unwrap(selected_corpus).location
                  hit == CacheHit(cache, loc)
                  l == load_from_disk(None, heap, disk, loc)
                  h1 == IF hit THEN heap ELSE l.heap
                  c1 == IF hit THEN cache ELSE l.cache
              IN /\ updates_pending' = TRUE
                 /\ IF ~hit /\ ~imported
                    THEN /\ cache' = None
                         /\ heap' = Collect(heap, None, jobs, finished, app_graph)
                         /\ exited' = TRUE
                         /\ ctl' = ctl
                         /\ lastOp' = [Op("persist_changes_on_exit") EXCEPT !.ok = FALSE]
                    ELSE /\ cache' = c1
                         /\ heap' = Collect(h1, c1, jobs, finished, app_graph)
                         /\ exited' = FALSE
                         /\ ctl' = [pc |-> "persist", handle |-> Unwrap(c1).graph]
                         /\ lastOp' = Op("persist_changes_on_exit")
         ELSE /\ UNCHANGED <<updates_pending, cache, heap, ctl>>
              /\ exited' = TRUE
              /\ lastOp' = Op("persist_changes_on_exit")
    /\ scen' = CalledOther
    /\ ops' = ops + 1
    /\ got' = GotAlive(got, heap')
    /\ UNCHANGED <<selected_corpus, undoer, disk, running, finished, failed, jobs,
                   app_graph, mode, main_view, held, current_editor, completed,
                   corpus_locations, shutdown_request, editor_pending, guards, hist>>

\* persist_changes_on_exit: `graph.write()`
PersistLock ==
    /\ ctl.pc = "persist"
    /\ CanWrite(guards, ctl.handle)
    /\ guards' = guards \cup {[id |-> 0, handle |-> ctl.handle, kind |-> "w",
                                done |-> 0]}
    /\ ctl' = [ctl EXCEPT !.pc = "persisting"]
    /\ UNCHANGED <<selected_corpus, updates_pending, undoer, cache, heap, disk,
                   running, finished, failed, jobs, app_graph, exited, mode,
                   main_view, held, current_editor, completed, corpus_locations,
                   shutdown_request, editor_pending, ops, hist, scen, got, lastOp>>

\* persist_changes_on_exit: graph.persist_to(&location) under the guard, then
\* the history is reset and on_exit returns
PersistWrite ==
    /\ ctl.pc = "persisting"
    /\ \E written \in Outcomes :
         /\ IF written
            THEN /\ disk' = [disk EXCEPT ![Unwrap(selected_corpus).location] =
                                 heap[ctl.handle]]
                 /\ undoer' = default_undoer
            ELSE UNCHANGED <<disk, undoer>>
         /\ lastOp' = [lastOp EXCEPT !.ok = written]
    /\ guards' = { g \in guards : g.id # 0 }
    /\ ctl' = Idle
    /\ exited' = TRUE
    /\ UNCHANGED <<selected_corpus, updates_pending, cache, heap,
                   running, finished, failed, jobs, app_graph, mode,
                   main_view, held, current_editor, completed, corpus_locations,
                   shutdown_request, editor_pending, ops, hist, scen, got>>

\* CorpusCache::load_from_disk: `self.inner.write()`, held until it returns
WorkerSlotLock(j) ==
    /\ ~exited
    /\ mode = "wait"
    /\ j.pc = "load" \/ (j.pc = "start" /\ j.kind \in {"undo", "redo"})
    /\ LockFree(held, "slot")
    /\ held' = held \cup {[lock |-> "slot", owner |-> j.id, kind |-> "w"]}
    /\ jobs' = Replace(jobs, j, [j EXCEPT !.pc = "loading"])
    /\ UNCHANGED <<selected_corpus, updates_pending, undoer, cache, heap, disk,
                   running, finished, failed, app_graph, exited, mode, main_view,
                   ctl, current_editor, completed, corpus_locations,
                   shutdown_request, editor_pending, guards, ops, hist, scen, got,
                   lastOp>>

\* a step of the spawned closure of job j
WorkerOf(j) ==
    \/ WorkerGet(j)
    \/ WorkerSlotLock(j)
    \/ WorkerLoad(j)
    \/ WorkerLockWrite(j)
    \/ WorkerApplyEvent(j)
    \/ WorkerUnlockWrite(j)
    \/ WorkerEnsureLoaded(j)
    \/ WorkerLockRead(j)
    \/ WorkerUnlockRead(j)
    \/ WorkerDeliver(j)
    \/ WorkerRemove(j)

\* a step of the control thread inside a call it has begun
CtlStep == ShowStep \/ PersistLock \/ PersistWrite

\* a step of one of the spawned closures
PoolStep == \E j \in jobs : WorkerOf(j)

\* add_changeset, undo and the exit on the edited corpus; the UI keeps
\* calling JobExecutor::show
NextWait ==
    \/ add_changeset(LockUpdate)
    \/ undo
    \/ PersistGet
    \/ PersistLock
    \/ PersistWrite
    \/ ShowLockFailed
    \/ ShowLockFinished
    \/ ShowCallback
    \/ ShowLockRunning
    \/ ShowReturn
    \/ \E j \in jobs : WorkerGet(j)
    \/ \E j \in jobs : WorkerSlotLock(j)
    \/ \E j \in jobs : WorkerLoad(j)
    \/ \E j \in jobs : WorkerLockWrite(j)
    \/ \E j \in jobs : WorkerApplyEvent(j)
    \/ \E j \in jobs : WorkerUnlockWrite(j)
    \/ \E j \in jobs : WorkerEnsureLoaded(j)
    \/ \E j \in jobs : WorkerLockRead(j)
    \/ \E j \in jobs : WorkerUnlockRead(j)
    \/ \E j \in jobs : WorkerDeliver(j)
    \/ \E j \in jobs : WorkerRemove(j)

\* The UI calls JobExecutor::show frame after frame and goes on inside a call
\* it has begun.  The thread pool runs the closures, and the locks are
\* eventually fair: closures that ask for a lock that is free again and again
\* are not passed over for ever.
SpecWait ==
    /\ InitWait
    /\ [][NextWait]_vars
    /\ WF_vars(CtlStep)
    /\ SF_vars(PoolStep)

\* The user selects corpora and switches between the start view and the
\* document view; the UI ticks.
NextViews ==
    \/ \E s \in Selections : AppSelectCorpus(s)
    \/ \E v \in {"Start", "EditDocument"} : change_view(v)
    \/ AppUpdate
    \/ UiWorker

SpecViews == InitViews /\ [][NextViews]_vars

\* selections, edits and deletions of corpora, workers interleaving freely
NextDelete ==
    \/ \E s \in Selections : select_corpus(s)
    \/ \E u \in SeqChangesets : add_changeset(u)
    \/ \E n \in Corpora : delete_corpus(n)
    \/ show
    \/ \E j \in jobs : WorkerGet(j)
    \/ \E j \in jobs : WorkerLoad(j)
    \/ \E j \in jobs : WorkerApply(j)
    \/ \E j \in jobs : WorkerDelete(j)
    \/ \E j \in jobs : WorkerDeliver(j)
    \/ \E j \in jobs : WorkerRemove(j)

SpecDelete == InitDelete /\ [][NextDelete]_vars

\* eframe calls on_exit once the window closes: the close request was not
\* cancelled, or the Close command of the Requested branch was sent
on_exit ==
    /\ shutdown_request = "ShutdownIsSafe"
    /\ persist_changes_on_exit

\* edits, undo and the shutdown sequence, workers interleaving freely
NextShutdown ==
    \/ EditorEdit
    \/ shutdown_request = "None" /\ undo
    \/ CloseRequested(EditorUpdate)
    \/ shutdown_request = "None" /\ show
    \/ ShowRequested
    \/ on_exit
    \/ \E j \in jobs : WorkerEditor(j)
    \/ \E j \in jobs : WorkerGet(j)
    \/ \E j \in jobs : WorkerLoad(j)
    \/ \E j \in jobs : WorkerApply(j)
    \/ \E j \in jobs : WorkerDeliver(j)
    \/ \E j \in jobs : WorkerRemove(j)

SpecShutdown == InitShutdown /\ [][NextShutdown]_vars

TypeOK ==
    /\ running \subseteq Titles
    /\ mode \in {"free", "tracked", "sequential", "history", "cache", "locks",
                "shutdown", "failure", "delete"}
    /\ shutdown_request \in {"None", "Requested", "ShutdownIsSafe"}
    /\ editor_pending \in BOOLEAN

\* Edited is a state of the program (violated as an invariant of SpecSeq)
EditedNotReached == ~Edited


----------------------------------------------------------------------------
(* Claims *)

\* the add call recorded as hist[n] has had its result delivered
Delivered(n) == hist[n].updated + hist[n].reported >= 1

\* C2, in the form a finite run decides: once nothing is running and nothing
\* is left to drain, every JobExecutor::add call has had its state_updater
\* invoked or its error reported -- also when jobs share a title.
C2_EveryJobDelivered ==
    (mode = "tracked" /\ Quiescent) => \A n \in 1..Len(hist) : Delivered(n)

\* C3: per add call the state_updater runs at most once, the error is reported
\* at most once, never both; a worker that returned Err never has its
\* state_updater run; no worker runs twice.
C3_AtMostOnce ==
    \A n \in 1..Len(hist) :
        /\ hist[n].updated + hist[n].reported <= 1
        /\ hist[n].worker = "err" => hist[n].updated = 0
        /\ hist[n].worker = "ok" => hist[n].reported = 0
        /\ hist[n].worker = "none" => hist[n].updated + hist[n].reported = 0
        /\ hist[n].runs <= 1

\* C3's case: one job was delivered through its callback, another one failed
\* and was reported
C3_Witness ==
    \E n, m \in 1..Len(hist) :
        /\ hist[n].worker = "ok" /\ hist[n].updated = 1
        /\ hist[m].worker = "err" /\ hist[m].reported = 1

\* C4 as stated: a job whose result is in the finished/failed queue (or was
\* drained from it) no longer has its title in the running set.
C4_RemovedWithDelivery ==
    \A j \in jobs : j.pc = "remove" => j.title \notin running


\* the diff log of the selected corpus
SelectedDiff == Unwrap(selected_corpus).diff_to_last_save

\* the persisted baseline of the selected corpus with its diff log replayed
ReplayedBaseline ==
    ApplyUpdate(disk[Unwrap(selected_corpus).location], SelectedDiff)

\* C1 as stated: with a corpus selected, no job running and nothing left to
\* drain, the cached graph of that corpus is its persisted baseline with
\* diff_to_last_save replayed in order.
C1_GraphIsReplayedBaseline ==
    (IsSome(selected_corpus) /\ Quiescent /\ ~exited)
        => SelectedGraph = ReplayedBaseline

\* C5 as stated: after add_changeset calls only on the selected corpus, all
\* drained, diff_to_last_save is the concatenation of the events of the
\* changesets that were applied to the graph, in the order of application.
C5_DiffIsAppliedEvents ==
    (scen.active /\ scen.first /\ scen.phase = "cs" /\ scen.nofail /\ Quiescent
     /\ ~exited)
        => SelectedDiff = scen.applied

\* C7 as stated: undo() with has_undo() true, then redo() as the next call;
\* once all jobs are drained the diff log and the graph content are those from
\* right before the undo(), whether or not the undo job had finished.
C7_RoundTrip ==
    (scen.active /\ scen.rt = "redone" /\ scen.nofail /\ Quiescent)
        => /\ SelectedDiff = Unwrap(scen.saved).diff
           /\ SelectedGraph = Unwrap(scen.saved).graph


\* an undo or redo job whose worker returned Ok and whose callback has not
\* run yet
ReloadSucceeded ==
    \/ \E j \in jobs : j.kind \in {"undo", "redo"} /\ j.pc \in {"deliver", "remove"}
                       /\ j.ok
    \/ \E p \in PayloadsOf(finished) : p.kind \in {"undo", "redo"}

\* the events of the first k changesets of the scenario
RECURSIVE Concat(_, _)
Concat(css, k) == IF k = 0 THEN <<>> ELSE Concat(css, k - 1) \o css[k]

C8_UndoAllRestoresGraph ==
    (scen.active /\ scen.clean /\ scen.nofail /\ Quiescent
     /\ scen.phase = "undo" /\ Len(scen.edits) \in 1..MaxUndos
     /\ scen.n_undo = Len(scen.edits))
        => /\ SelectedDiff = <<>>
           /\ SelectedGraph = scen.base

\* a step that is a call of the named Project method
IsCall(name) == ops' = ops + 1 /\ lastOp'.op = name

NewJobs == jobs' \ jobs

ProjectUnchanged ==
    UNCHANGED <<selected_corpus, updates_pending, undoer, cache, heap, disk,
                running, finished, failed, jobs, app_graph>>

\* C9: has_undo() is true exactly when undo() moves the selected corpus one
\* snapshot back in the history and schedules a reload job for it; has_redo()
\* is true exactly when redo() moves it to the snapshot undone last and
\* schedules a reload job; when they are false the call changes nothing and
\* schedules nothing.
C9_AvailabilityMatchesCall ==
    [][ /\ IsCall("undo") =>
            IF has_undo
            THEN /\ Len(undoer.undos) >= 2
                 /\ selected_corpus' = Some(undoer.undos[Len(undoer.undos) - 1])
                 /\ undoer'.undos = Front(undoer.undos)
                 /\ undoer'.redos = Append(undoer.redos, Unwrap(selected_corpus))
                 /\ \E j \in NewJobs : /\ j.kind = "undo"
                                       /\ j.corpus = selected_corpus'
                                       /\ j.title \in running'
            ELSE ProjectUnchanged
        /\ IsCall("redo") =>
            IF has_redo
            THEN /\ selected_corpus' = Some(Last(undoer.redos))
                 /\ undoer'.redos = Front(undoer.redos)
                 /\ undoer'.undos = Append(undoer.undos, Last(undoer.redos))
                 /\ \E j \in NewJobs : /\ j.kind = "redo"
                                       /\ j.corpus = selected_corpus'
                                       /\ j.title \in running'
            ELSE ProjectUnchanged
      ]_vars

\* C9's case: redo() was available and has been called: its job is in flight,
\* undo is available again and redo no longer
C9_Witness ==
    /\ lastOp.op = "redo" /\ lastOp.had_redo
    /\ \E j \in jobs : j.kind = "redo" /\ j.pc = "start"
    /\ has_undo /\ ~has_redo

C11_DirtyFlagCleared ==
    (Quiescent /\ ~exited) => ~updates_pending

\* C12 as stated: a CorpusCache::get(loc) that follows a get(loc) with no get
\* for another location in between returns the very instance the earlier one
\* returned, whatever else happened in between.
C12_SameInstance ==
    [][ (IsSome(got) /\ IsSome(got')
         /\ Unwrap(got').location = Unwrap(got).location
         /\ Unwrap(got').handle # 0)
            => Unwrap(got').handle = Unwrap(got).handle ]_vars

\* a write guard whose batch is applied in part
MidBatch(g) ==
    /\ g.kind = "w"
    /\ \E j \in jobs : j.id = g.id /\ 0 < g.done /\ g.done < Len(EventsToApply(j))

ReadersShare ==
    \E r1, r2 \in guards : r1 # r2 /\ r1.kind = "r" /\ r2.kind = "r"
                           /\ r1.handle = r2.handle

\* what only the control thread may change
AppState ==
    <<selected_corpus, updates_pending, undoer, app_graph, corpus_locations>>

\* a state_updater has run in this step
UpdaterRan == \E n \in DOMAIN hist : hist'[n].updated # hist[n].updated

\* the step is JobExecutor::show draining both queues
DrainStep ==
    /\ finished # EmptyQueue \/ failed # EmptyQueue
    /\ finished' = AfterPopLoop(finished)
    /\ failed' = AfterPopLoop(failed)

\* the step is one of a spawned closure: its job moves on or is removed
WorkerStep == ~(jobs \subseteq jobs')

\* C14: a state_updater runs only in a step of JobExecutor::show, each at most
\* once per drain, and a worker step leaves selected corpus, diff log, undo
\* history, corpus registry, dirty flag and the application's graph view alone;
\* these change only in a Project call or in the drain.
C14_UpdatersOnlyInDrain ==
    [][ /\ UpdaterRan => (DrainStep /\ ~WorkerStep)
        /\ \A n \in DOMAIN hist : hist'[n].updated \in {hist[n].updated,
                                                         hist[n].updated + 1}
        /\ WorkerStep => (AppState' = AppState /\ ops' = ops)
        /\ AppState' # AppState => (DrainStep \/ ops' # ops) ]_vars

\* C14's case: a worker has queued its callback and gone, the drain has run
\* the callback, and the callback changed the diff log
C14_Witness ==
    /\ \E n \in DOMAIN hist : hist[n].updated = 1 /\ hist[n].worker = "ok"
    /\ IsSome(selected_corpus)
    /\ Unwrap(selected_corpus).diff_to_last_save # <<>>
    /\ jobs # {}

\* C15: the shutdown is safe, and the process exits, only with nothing
\* running, no worker executing and no unflushed edit in the editor.
C15_SafeOnlyWhenIdle ==
    (shutdown_request = "ShutdownIsSafe" \/ exited)
        => (running = {} /\ jobs = {} /\ ~editor_pending)

ReloadFailureReported ==
    /\ DrainStep
    /\ \/ lastOp.op = "undo" /\ IsSome(failed["Undoing changes"])
       \/ lastOp.op = "redo" /\ IsSome(failed["Redoing changes"])

\* C17 as stated: when the drain reports that the job of undo() or redo() has
\* failed, selected corpus, diff log and history cursor are the ones the call
\* found, and the cached graph is the baseline with that diff log replayed.
C17_FailedReloadKeepsState ==
    [][ ReloadFailureReported
           => /\ IsSome(lastOp.before)
              /\ selected_corpus' = Unwrap(lastOp.before).selected_corpus
              /\ undoer' = Unwrap(lastOp.before).undoer
              /\ IsSome(selected_corpus') => SelectedGraph' = ReplayedBaseline' ]_vars

\* the call deletes corpus `name`, which is the selected one
DeletesSelected(name) ==
    /\ IsCall("delete_corpus")
    /\ IsSome(selected_corpus)
    /\ Unwrap(selected_corpus).name = name
    /\ name \in DOMAIN corpus_locations
    /\ name \notin DOMAIN corpus_locations'

\* a worker's CorpusCache::get returns an instance for a storage location that
\* has been removed: an instance loaded before the deletion
StaleGet ==
    \E j \in jobs :
        /\ j.pc = "start"
        /\ j.kind \in {"changeset", "structure"}
        /\ IsSome(j.corpus)
        /\ Unwrap(j.corpus).location \notin DOMAIN disk
        /\ \E j2 \in jobs' : j2.id = j.id /\ j2.handle # 0

\* C18 as stated: once delete_corpus has returned for the selected corpus, no
\* corpus is selected and the cache slot holds no entry for the storage
\* location of the deleted corpus; and no get returns an instance that was
\* loaded before its location was deleted.
C18_DeleteDropsCacheEntry ==
    [][ /\ \A name \in Corpora :
             DeletesSelected(name)
                => /\ selected_corpus' = None
                   /\ ~CacheHit(cache', corpus_locations[name])
        /\ ~StaleGet ]_vars

\* C19 as stated: a name is out of the registry only when the job deleting its
\* storage location has succeeded; seen once nothing runs and nothing is left
\* to drain.
C19_RegistryFollowsDeletion ==
    Quiescent
       => \A name \in Corpora :
             name \notin DOMAIN corpus_locations
                => RegisteredLocations[name] \notin DOMAIN disk

\* C20 as stated: after persist_changes_on_exit() returned Ok with a corpus
\* selected, the baseline location holds the content of the live graph, the
\* diff_to_last_save of the selected corpus is empty, and the undo history is
\* the one snapshot of that corpus.
C20_PersistLeavesCleanHistory ==
    (lastOp.op = "persist_changes_on_exit" /\ lastOp.ok /\ exited
     /\ IsSome(selected_corpus))
        => /\ disk[Unwrap(selected_corpus).location] = SelectedGraph
           /\ SelectedDiff = <<>>
           /\ undoer = [default_undoer EXCEPT
                           !.undos = <<Unwrap(selected_corpus)>>]

\* C21 as stated: whatever select_corpus, add_changeset, undo, redo and
\* restarts (load_after_init on the deserialized Project) were made, the undo
\* history holds at most 10 snapshots.
C21_HistoryBounded == Len(undoer.undos) <= MaxUndos

SelectAsStated(selection) ==
    IF IsSome(selected_corpus) /\ selection = Some(Unwrap(selected_corpus).name)
    THEN /\ selected_corpus' = selected_corpus
         /\ undoer' = undoer
         /\ jobs' = jobs
         /\ running' = running
    ELSE /\ jobs' # jobs
         /\ IF IsSome(selection) /\ Unwrap(selection) \in DOMAIN corpus_locations
            THEN selected_corpus' = Some(NewCorpus(Unwrap(selection),
                                            corpus_locations[Unwrap(selection)]))
            ELSE selected_corpus' = None

RECURSIVE DrainOrder(_, _)
\* the titles whose callbacks JobExecutor::show runs, in the order of the calls
DrainOrder(fin, i) ==
    IF i > Len(TitleOrder) THEN <<>>
    ELSE IF IsSome(fin[TitleOrder[i]])
         THEN <<TitleOrder[i]>> \o DrainOrder(fin, i + 1)
         ELSE DrainOrder(fin, i + 1)

\* C24 as stated: a drain runs the success callbacks waiting in finished in
\* the order in which the workers completed.
C24_CallbacksInCompletionOrder ==
    [][ DrainStep => DrainOrder(finished, 1) = completed ]_vars

\* C25 as stated: the persisted baseline of a graph is written, and a graph
\* is loaded from disk, only in a step of a job worker; a step of the control
\* thread (a Project call or a drain) does neither.
C25_GraphIOOnlyInWorkers ==
    [][ (disk' # disk \/ Len(heap') > Len(heap)) => WorkerStep ]_vars

\* corpus c is the selected one
SelectedIs(c) == IsSome(selected_corpus) /\ Unwrap(selected_corpus).name = c

\* no job is running and the installed editor was built from the graph of c
EditorReady(c) ==
    /\ running = {}
    /\ current_editor = Some([location |-> RegisteredLocations[c]])

EditorFollows(c) == SelectedIs(c) ~> (~SelectedIs(c) \/ EditorReady(c))

\* C26 as stated: once a corpus is selected then, unless the selection changes
\* again, a state is reached in which no job is running, the corpus is still
\* selected and the installed editor was built from its graph.
C26_EditorEventuallyInstalled == EditorFollows("a") /\ EditorFollows("b")

\* the step is one of the worker of an export job
ExportStep(j) == j.kind = "export" /\ j \notin jobs'

\* C27 as stated: a step of the worker of an export job leaves the content of the graph
\* of the corpus that was selected when export_to_graphml was called, the
\* content of every graph instance, the selected corpus with its diff log and
\* the undo history unchanged; the call itself changes none of them either,
\* it schedules one job for the selected corpus, and none if no corpus is
\* selected.
C27_ExportOnlyReads ==
    [][ /\ \A j \in jobs : ExportStep(j) =>
              /\ selected_corpus' = selected_corpus
              /\ undoer' = undoer
              /\ disk' = disk
              /\ LET loc == Unwrap(j.corpus).location
                 IN GraphAt(cache', heap', disk', loc) = GraphAt(cache, heap, disk, loc)
              /\ \A h \in DOMAIN heap \cap DOMAIN heap' : heap'[h] = heap[h]
        /\ IsCall("export_to_graphml") =>
              /\ selected_corpus' = selected_corpus
              /\ undoer' = undoer
              /\ IF IsSome(selected_corpus)
                 THEN \E j \in jobs' \ jobs :
                         /\ jobs' = jobs \cup {j}
                         /\ j.kind = "export"
                         /\ j.corpus = selected_corpus
                 ELSE jobs' = jobs
      ]_vars

\* the worker closure of job j has been spawned and has not returned yet
Executing(j) == j.pc \notin {"deliver", "remove"}

\* C28 as stated: every job whose worker is executing has its title in
\* running, so has_running_jobs and has_active_job_with_title(title) are
\* false only when no such worker is executing.
C28_RunningCoversWorkers ==
    \A j \in jobs : Executing(j) => j.title \in running

\* C29 as stated: when the structure-refresh job and the editor-creation job
\* of one selection have both obtained the graph from CorpusCache::get, they
\* hold the same instance, and it is the instance in the cache slot.
C29_ConcurrentGetsShareInstance ==
    \A j1, j2 \in jobs :
        ( /\ j1.kind = "structure" /\ j2.kind = "tree"
          /\ j1.corpus = j2.corpus
          /\ j1.handle # 0 /\ j2.handle # 0 )
        => /\ j1.handle = j2.handle
           /\ cache = Some([location |-> Unwrap(j1.corpus).location,
                             graph |-> j1.handle])

\* the content a graph has once the diff log of corpus c is replayed onto
\* its persisted baseline
Replayed(c) == ApplyUpdate(disk[c.location], c.diff_to_last_save)

\* C30 as stated: a structure-refresh job that obtained, through
\* CorpusCache::get, the instance an undo job has loaded reads either the
\* content from before the undo (the snapshot undo() moved to redos) or the
\* content of the snapshot undone to, never anything else.
C30_ReaderSeesNoBareBaseline ==
    \A u, r \in jobs :
        ( /\ u.kind = "undo" /\ u.handle # 0
          /\ r.kind = "structure" /\ r.handle = u.handle
          /\ undoer.redos # <<>> )
        => heap[r.handle] \in { Replayed(Last(undoer.redos)),
                                Replayed(Unwrap(u.corpus)) }

\* C31: a new edit discards the redo branch: once the callback of an
\* add_changeset call that found a redo branch (has_redo() was true, as after
\* undo()) has been drained, has_redo() is false and redo() returns no state.
C31_NewEditDiscardsRedo ==
    ( /\ lastOp.op = "add_changeset"
      /\ lastOp.had_redo
      /\ Quiescent
      /\ ~updates_pending
      /\ IsSome(selected_corpus) )
    => /\ ~has_redo
       /\ UndoerRedo(undoer, Unwrap(selected_corpus)).result = None

\* s is an initial segment of t
IsPrefix(s, t) == Len(s) <= Len(t) /\ SubSeq(t, 1, Len(s)) = s

\* C32: when a drain runs the callback of an add_changeset job and appends
\* its events to the diff log of the selected corpus, that corpus is the one
\* the job was created for, the one to whose graph the worker applied them:
\* it has the same name and location, and its diff log still starts with the
\* log the job was created on (no undo has moved the history cursor back).
C32_EventsLoggedOnTheirCorpus ==
    [][ \A p \in PayloadsOf(finished) :
          ( /\ DrainStep
            /\ p.kind = "changeset"
            /\ IsSome(selected_corpus) )
          => /\ Unwrap(p.corpus).name = Unwrap(selected_corpus).name
             /\ Unwrap(p.corpus).location = Unwrap(selected_corpus).location
             /\ IsPrefix(Unwrap(p.corpus).diff_to_last_save, SelectedDiff) ]_vars

\* the step is a UI tick whose load_editor(false) adds an editor-creation job
TickAddsEditorJob ==
    /\ ops' = ops
    /\ \E j \in jobs' \ jobs : j.kind = "tree" /\ j.pc = "start"

\* C36: a UI tick (load_editor(false), then the drain) on an unchanged
\* selection adds no editor-creation job while the callback of an earlier one
\* waits in finished to be drained.
C36_OneEditorJobUntilInstalled ==
    [][ TickAddsEditorJob => finished[TitleOf("tree")] = None ]_vars

\* the states of ShutdownRequest in the order of the shutdown sequence
ShutdownRank(r) ==
    CASE r = "None" -> 0
      [] r = "Requested" -> 1
      [] r = "ShutdownIsSafe" -> 2

\* C37: the shutdown state never moves back.  It becomes Requested only from
\* None, in a step that finds pending edits in the editor and flushes them
\* into a job; it becomes ShutdownIsSafe from None or from Requested; and
\* every step of the control thread made while it is Requested drains both
\* queues.
C37_ShutdownMovesForward ==
    [][ /\ ShutdownRank(shutdown_request') >= ShutdownRank(shutdown_request)
        /\ (shutdown_request # "Requested" /\ shutdown_request' = "Requested")
              => /\ shutdown_request = "None"
                 /\ editor_pending /\ ~editor_pending'
                 /\ \E j \in jobs' \ jobs : j.kind = "editor" /\ j.pc = "start"
        /\ (shutdown_request' = "Requested" /\ ~WorkerStep)
              => /\ finished' = AfterPopLoop(finished)
                 /\ failed' = AfterPopLoop(failed) ]_vars

\* C37's case: the close request found pending edits, the drains of the
\* Requested state have run the callbacks of the flushed edits, no job is
\* left and the state has moved on to ShutdownIsSafe
C37_Witness ==
    /\ shutdown_request = "ShutdownIsSafe"
    /\ lastOp.op = "close"
    /\ lastOp.had_undo
    /\ IsSome(selected_corpus)
    /\ Len(SelectedDiff) >= 2
    /\ Quiescent

\* C34: whenever a corpus is selected, its name is a key of the corpus
\* registry and its location is the location registered for that name.
C34_SelectionMatchesRegistry ==
    IsSome(selected_corpus)
    => /\ Unwrap(selected_corpus).name \in DOMAIN corpus_locations
       /\ corpus_locations[Unwrap(selected_corpus).name]
             = Unwrap(selected_corpus).location

\* the titles load_editor guards with has_active_job_with_title
EditorTitles == {TitleOf("tree"), TitleOf("doc")}

\* C35: at most one job of each editor-creation title exists at any time, and
\* a step that adds such a job finds its title absent from running.
C35_OneEditorJobPerTitle ==
    [][ /\ \A t \in EditorTitles :
             Cardinality({ j \in jobs' : j.title = t }) <= 1
        /\ \A j \in jobs' \ jobs :
             (j.pc = "start" /\ j.title \in EditorTitles)
                => j.title \notin running ]_vars

\* C35's case: load_editor(true) ran for a second selection while the job of
\* the first was still running, and added nothing
C35_Witness ==
    /\ lastOp.op = "select_corpus"
    /\ ops = 2
    /\ IsSome(selected_corpus)
    /\ \E j \in jobs : /\ j.title = TitleOf("tree")
                        /\ j.corpus # selected_corpus
                        /\ Unwrap(j.corpus).name # Unwrap(selected_corpus).name

\* the threads that live: the control thread (0) and one per spawned closure
Threads == {0} \cup { j.id : j \in jobs }

\* the threads that hold a guard of one of the executor's locks or of the slot
HoldersOf(lock) == { g.owner : g \in { h \in held : h.lock = lock } }

\* the threads whose guard refuses RwLock::write / RwLock::read on a graph
WriteBlockers(h) == { g.id : g \in { x \in guards : x.handle = h } }
ReadBlockers(h) ==
    { g.id : g \in { x \in guards : x.handle = h /\ x.kind = "w" } }

\* the threads the control thread waits for where it stands: the lock it asks
\* for next in JobExecutor::show, in the callback it is about to run, or in
\* persist_changes_on_exit
CtlBlockers ==
    CASE ctl.pc = "idle" -> HoldersOf("failed")
      [] ctl.pc = "failed" -> HoldersOf("finished")
      [] ctl.pc = "drain" ->
           IF finished = EmptyQueue
           THEN { g.owner : g \in { h \in held : h.lock = "running"
                                                  /\ h.kind = "w" } }
           ELSE LET p == NextCallback(finished)
                IN (IF p.kind \in {"changeset", "undo", "redo", "editor"}
                    THEN HoldersOf("running") ELSE {})
                   \cup (IF p.kind = "structure" /\ p.handle # 0
                         THEN ReadBlockers(p.handle) ELSE {})
      [] ctl.pc = "persist" -> WriteBlockers(ctl.handle)
      [] OTHER -> {}

\* the threads the closure of job j waits for where it stands
JobBlockers(j) ==
    CASE j.pc \in {"start", "load"} -> HoldersOf("slot")
      [] j.pc \in {"work", "ensure"} -> WriteBlockers(j.handle)
      [] j.pc = "read" -> ReadBlockers(j.handle)
      [] j.pc = "deliver" -> HoldersOf(IF j.ok THEN "finished" ELSE "failed")
      [] j.pc = "remove" -> HoldersOf("running")
      [] OTHER -> {}

Blockers(t) ==
    IF t = 0 THEN CtlBlockers
    ELSE JobBlockers(CHOOSE j \in jobs : j.id = t)

\* a set of threads none of which can go on: each waits for a lock held by a
\* thread of the set or by a guard that no live thread will drop
WaitCycle ==
    /\ ~exited
    /\ \E S \in SUBSET Threads :
         /\ S # {}
         /\ \A t \in S : \E b \in Blockers(t) : b \in S \/ b \notin Threads

\* C33: in no reachable state do the control thread (in the drain, in a
\* callback that adds a job, or in persist_changes_on_exit) and the workers wait
\* for each other in a cycle over the running/finished/failed locks, the cache
\* slot lock and the graph lock; and every spawned closure eventually finishes
\* and leaves the executor: again and again no closure is left, unless the
\* application has exited.
C33_DeadlockFree ==
    /\ [](~WaitCycle)
    /\ []<>(exited \/ jobs = {})

\* the control thread stands in the drain with both queue locks held and waits
\* for graph.read() in the callback of the structure refresh while a worker
\* applies a changeset under graph.write()
C33_Witness ==
    /\ mode = "wait"
    /\ ctl.pc = "drain"
    /\ finished # EmptyQueue
    /\ HoldersOf("finished") = {0}
    /\ HoldersOf("failed") = {0}
    /\ \E j \in jobs : j.pc = "apply" /\ j.id \in Blockers(0)

====
